---- MODULE Spec2Model ----
(***************************************************************************)
(* EDI ASN validation: the segment parser (utils/file_handler.py), the     *)
(* validators (validators/*.py) and the orchestrator validate_file         *)
(* (app.py, app_backup.py).                                                *)
(*                                                                         *)
(* Text is a sequence of one-character strings, so that splitting,         *)
(* trimming and pattern search are computed, not assumed.  Time is counted *)
(* in minutes of the proleptic Gregorian calendar.                         *)
(***************************************************************************)
EXTENDS Integers, Sequences, FiniteSets, TLC

VARIABLES
    variant,          \* "app" (app.py) or "app_backup" (app_backup.py)
    input_lines,      \* the lines the uploaded text is made of (environment)
    content,          \* file_content: the uploaded text
    config,           \* the configuration handed to validate_file
    now,              \* wall clock, minutes
    faults,           \* validators in which an internal fault is raised (environment)
    pc,               \* position in validate_file / parse_edi_file
    parsed_data,      \* result of parse_edi_file
    validation_pipeline, \* list of validator keys to run
    executed,         \* validator keys in the order validate() was called
    validations,      \* results['validations']: <<key, result>> in insertion order
    summary,          \* results['summary']
    gtin,             \* the argument of a call of _validate_gtin_checksum
    checksum_valid    \* what the call returned

vars == <<variant, input_lines, content, config, now, faults, pc, parsed_data,
          validation_pipeline, executed, validations, summary, gtin,
          checksum_valid>>

(***************************************************************************)
(* Characters and strings                                                  *)
(***************************************************************************)
Digits == {"0", "1", "2", "3", "4", "5", "6", "7", "8", "9"}

Upper == {"A", "B", "C", "D", "E", "F", "G", "H", "I", "J", "K", "L", "M",
          "N", "O", "P", "Q", "R", "S", "T", "U", "V", "W", "X", "Y", "Z"}

Whitespace == {" ", "\t", "\r", "\n"}

NL == "\n"

RECURSIVE Concat(_)
\* ''.join(parts)
Concat(parts) ==
    IF parts = <<>> THEN <<>> ELSE Head(parts) \o Concat(Tail(parts))

RECURSIVE Join(_, _)
\* sep.join(parts), sep a sequence of characters
Join(parts, sep) ==
    IF Len(parts) = 0 THEN <<>>
    ELSE IF Len(parts) = 1 THEN parts[1]
    ELSE parts[1] \o sep \o Join(Tail(parts), sep)

RECURSIVE SortedSeq(_)
\* the numbers of a finite set in increasing order
SortedSeq(P) ==
    IF P = {} THEN <<>>
    ELSE LET m == CHOOSE x \in P : \A y \in P : x <= y
         IN  <<m>> \o SortedSeq(P \ {m})

\* str.split(d) for a one-character delimiter: the pieces between
\* consecutive delimiters, always at least one piece
Split(s, d) ==
    LET at == SortedSeq({i \in 1..Len(s) : s[i] = d})
        n == Len(at)
    IN  [k \in 1..(n + 1) |->
            SubSeq(s, IF k = 1 THEN 1 ELSE at[k - 1] + 1,
                      IF k = n + 1 THEN Len(s) ELSE at[k] - 1)]

RECURSIVE LStrip(_)
LStrip(s) ==
    IF s # <<>> /\ Head(s) \in Whitespace THEN LStrip(Tail(s)) ELSE s

RECURSIVE RStrip(_)
RStrip(s) ==
    IF s # <<>> /\ s[Len(s)] \in Whitespace
    THEN RStrip(SubSeq(s, 1, Len(s) - 1)) ELSE s

\* str.strip()
Strip(s) == RStrip(LStrip(s))

\* d in s
Contains(s, d) == \E i \in 1..Len(s) : s[i] = d

\* s[i:i+len(lit)] == lit   (i is 1-based)
LitAt(s, i, lit) ==
    /\ i >= 1
    /\ i + Len(lit) - 1 <= Len(s)
    /\ \A k \in 1..Len(lit) : s[i + k - 1] = lit[k]

\* lit in s
HasSub(s, lit) == \E i \in 1..(Len(s) + 1) : LitAt(s, i, lit)

\* s.startswith(lit)
StartsWith(s, lit) == LitAt(s, 1, lit)

\* s.endswith(lit)
EndsWith(s, lit) == Len(lit) <= Len(s) /\ LitAt(s, Len(s) - Len(lit) + 1, lit)

(***************************************************************************)
(* utils/file_handler.py: the segment parser                               *)
(***************************************************************************)
\* a tokenizer that drops the empty fields of a delimited line
ParseSegmentDropsEmpty(line, line_num) ==
    LET parts == IF Contains(line, "*")
                 THEN SelectSeq(Split(line, "*"), LAMBDA f : f # <<>>)
                 ELSE IF Contains(line, "|")
                 THEN SelectSeq(Split(line, "|"), LAMBDA f : f # <<>>)
                 ELSE IF Len(line) > 3
                      THEN <<SubSeq(line, 1, 3), SubSeq(line, 4, Len(line))>>
                      ELSE <<line>>
    IN  [tag |-> Head(parts),
         elements |-> Tail(parts),
         line_number |-> line_num,
         raw_content |-> line]

\* The three-tier tokenizer of one trimmed, non-empty line.
ParseSegment(line, line_num) ==
    LET parts == IF Contains(line, "*") THEN Split(line, "*")
                 ELSE IF Contains(line, "|") THEN Split(line, "|")
                 ELSE IF Len(line) > 3
                      THEN <<SubSeq(line, 1, 3), SubSeq(line, 4, Len(line))>>
                      ELSE <<line>>
    IN  [tag |-> Head(parts),
         elements |-> Tail(parts),
         line_number |-> line_num,
         raw_content |-> line]

\* dict assignment d[k] = v
DictPut(d, k, v) == [x \in (DOMAIN d) \cup {k} |-> IF x = k THEN v ELSE d[x]]

EmptyDict == [x \in {} |-> <<>>]

\* a control number once stored is kept: first-seen-wins
ExtractControlNumbersFirstWins(segment, control_numbers) ==
    LET tag == segment.tag
        elements == segment.elements
    IN  IF tag = <<"I", "S", "A">> /\ Len(elements) >= 13
           /\ "ISA" \notin DOMAIN control_numbers
        THEN DictPut(control_numbers, "ISA", elements[13])
        ELSE IF tag = <<"G", "S">> /\ Len(elements) >= 6
                /\ "GS" \notin DOMAIN control_numbers
        THEN DictPut(control_numbers, "GS", elements[6])
        ELSE IF tag = <<"S", "T">> /\ Len(elements) >= 2
                /\ "ST" \notin DOMAIN control_numbers
        THEN DictPut(control_numbers, "ST", elements[2])
        ELSE control_numbers

\* _extract_control_numbers: Python indexes elements from 0
ExtractControlNumbers(segment, control_numbers) ==
    LET tag == segment.tag
        elements == segment.elements
    IN  IF tag = <<"I", "S", "A">> /\ Len(elements) >= 13
        THEN DictPut(control_numbers, "ISA", elements[13])
        ELSE IF tag = <<"G", "S">> /\ Len(elements) >= 6
        THEN DictPut(control_numbers, "GS", elements[6])
        ELSE IF tag = <<"S", "T">> /\ Len(elements) >= 2
        THEN DictPut(control_numbers, "ST", elements[2])
        ELSE control_numbers

TagST == <<"S", "T">>

UnknownType == <<"U", "n", "k", "n", "o", "w", "n">>

\* The transaction set opened for an ST segment (file_handler.py 45-49).
\* segment['elements'][1] is the second element after the tag.
NewTransactionSet(segment) ==
    [type |-> IF Len(segment.elements) > 1 THEN segment.elements[2]
              ELSE UnknownType,
     control_number |-> IF Len(segment.elements) > 2 THEN segment.elements[3]
                        ELSE <<>>,
     segments |-> <<>>]

\* "Handle transaction set boundaries" (44-50): an ST segment opens a set,
\* which becomes current_transaction_set
OpenSet(transaction_sets, segment) ==
    IF segment.tag = TagST
    THEN Append(transaction_sets, NewTransactionSet(segment))
    ELSE transaction_sets

\* the segment appended to the set opened first
AddToFirst(opened, segment) ==
    IF Len(opened) > 0
    THEN [opened EXCEPT ![1].segments = Append(@, segment)]
    ELSE opened

\* current_transaction_set['segments'].append(segment) (52-53):
\* current_transaction_set is the set opened last, if any
AddToCurrent(opened, segment) ==
    IF Len(opened) > 0
    THEN [opened EXCEPT ![Len(opened)].segments = Append(@, segment)]
    ELSE opened

ControlTags == {<<"I", "S", "A">>, <<"G", "S">>, <<"S", "T">>}

\* What one segment adds to the parsed data (41-57).
AddSegment(acc, segment) ==
    [segments |-> Append(acc.segments, segment),
     transaction_sets |->
         AddToCurrent(OpenSet(acc.transaction_sets, segment), segment),
     control_numbers |->
         IF segment.tag \in ControlTags
         THEN ExtractControlNumbers(segment, acc.control_numbers)
         ELSE acc.control_numbers]

\* the blank test made on the untrimmed line
IsBlankLineUntrimmed(raw) == raw = <<>>

\* line.strip() and "if not line: continue" (34-36)
IsBlankLine(raw) == Strip(raw) = <<>>

\* One iteration of the loop over enumerate(lines, 1).
ParseLine(acc, raw, line_num) ==
    IF IsBlankLine(raw) THEN acc
    ELSE AddSegment(acc, ParseSegment(Strip(raw), line_num))

RECURSIVE ParseLines(_, _, _)
ParseLines(lines, i, acc) ==
    IF i > Len(lines) THEN acc
    ELSE ParseLines(lines, i + 1, ParseLine(acc, lines[i], i))

\* FileHandler.parse_edi_file
parse_edi_file(text) ==
    LET lines == Split(text, NL)
        acc == ParseLines(lines, 1,
                          [segments |-> <<>>, transaction_sets |-> <<>>,
                           control_numbers |-> EmptyDict])
    IN  [content |-> text,
         segments |-> acc.segments,
         transaction_sets |-> acc.transaction_sets,
         control_numbers |-> acc.control_numbers,
         metadata |-> [total_lines |-> Len(lines), file_size |-> Len(text)]]

NotParsed == [content |-> <<>>]

(***************************************************************************)
(* Findings and pattern search                                             *)
(***************************************************************************)
\* A finding dict; args are the values interpolated into its texts.
Finding(seg, msg, det, sug, args) ==
    [segment |-> seg, message |-> msg, details |-> det, suggestion |-> sug,
     args |-> args]

\* dict.get(key, default) on a result
GetOr(d, key, default) == IF key \in DOMAIN d THEN d[key] ELSE default

AlNumUpper == Digits \cup Upper

LowerLetters == {"a", "b", "c", "d", "e", "f", "g", "h", "i", "j", "k", "l", "m",
                 "n", "o", "p", "q", "r", "s", "t", "u", "v", "w", "x", "y", "z"}

RECURSIVE RunLen(_, _, _)
\* how many characters from position i on lie in cls (a greedy cls* )
RunLen(s, i, cls) ==
    IF i <= Len(s) /\ s[i] \in cls THEN 1 + RunLen(s, i + 1, cls) ELSE 0

\* s[i..] begins with one character of each class of classes
MatchClasses(s, i, classes) ==
    /\ i >= 1
    /\ i + Len(classes) - 1 <= Len(s)
    /\ \A k \in 1..Len(classes) : s[i + k - 1] \in classes[k]

NoMatch == [ok |-> FALSE, end |-> 0, caps |-> <<>>]

Matched(e, caps) == [ok |-> TRUE, end |-> e, caps |-> caps]

\* [0-9]{2}[A-Z]{5}[0-9]{4}[A-Z]{1}[1-9A-Z]{1}[Z]{1}[0-9A-Z]{1}
GstinClasses ==
    <<Digits, Digits, Upper, Upper, Upper, Upper, Upper, Digits, Digits,
      Digits, Digits, Upper, (Digits \ {"0"}) \cup Upper, {"Z"}, AlNumUpper>>

Digits4 == [k \in 1..4 |-> Digits]

Digits8 == [k \in 1..8 |-> Digits]

Digits14 == [k \in 1..14 |-> Digits]

\* [0-9]{2}[A-Z0-9]{13}
RefTokenClasses ==
    <<Digits, Digits>> \o [k \in 1..13 |-> AlNumUpper]

LitREFTJ == <<"R", "E", "F", "*", "T", "J", "*">>

\* REF\*TJ\*([0-9]{2}[A-Z0-9]{13}) at position i
MatchRefTJ(s, i) ==
    IF LitAt(s, i, LitREFTJ) /\ MatchClasses(s, i + 7, RefTokenClasses)
    THEN Matched(i + 22, <<SubSeq(s, i + 7, i + 21)>>)
    ELSE NoMatch

RefTJTries(s) == <<>> \o [j \in 1..Len(s) |-> MatchRefTJ(s, j)]

\* the general 15-character GSTIN pattern at position i
MatchGstinShape(s, i) ==
    IF MatchClasses(s, i, GstinClasses)
    THEN Matched(i + 15, <<SubSeq(s, i, i + 14)>>)
    ELSE NoMatch

GstinShapeTries(s) == <<>> \o [j \in 1..Len(s) |-> MatchGstinShape(s, j)]

LitLIN == <<"L", "I", "N", "*">>

LinQualifiers == {<<"U", "P">>, <<"I", "N">>, <<"U", "K">>, <<"E", "N">>}

\* LIN\*[0-9]+\*(?:UP|IN|UK|EN)\*([0-9A-Z]+) at position i
MatchLin(s, i) ==
    IF ~LitAt(s, i, LitLIN) THEN NoMatch
    ELSE LET n1 == RunLen(s, i + 4, Digits)
             q == i + 4 + n1
         IN  IF n1 >= 1 /\ LitAt(s, q, <<"*">>)
                /\ q + 3 <= Len(s) /\ SubSeq(s, q + 1, q + 2) \in LinQualifiers
                /\ s[q + 3] = "*"
             THEN LET n2 == RunLen(s, q + 4, AlNumUpper)
                  IN  IF n2 >= 1
                      THEN Matched(q + 4 + n2, <<SubSeq(s, q + 4, q + 3 + n2)>>)
                      ELSE NoMatch
             ELSE NoMatch

LinTries(s) == <<>> \o [j \in 1..Len(s) |-> MatchLin(s, j)]

\* ([0-9]{14}) at position i
MatchGtin14(s, i) ==
    IF MatchClasses(s, i, Digits14)
    THEN Matched(i + 14, <<SubSeq(s, i, i + 13)>>)
    ELSE NoMatch

Gtin14Tries(s) == <<>> \o [j \in 1..Len(s) |-> MatchGtin14(s, j)]

\* DTM\*<qualifier>\*(\d{8})\*?(\d{4})? at position i
MatchDtm(qualifier, s, i) ==
    LET lit == <<"D", "T", "M", "*">> \o qualifier \o <<"*">>
        d == i + Len(lit)
    IN  IF LitAt(s, i, lit) /\ MatchClasses(s, d, Digits8)
        THEN LET t == IF LitAt(s, d + 8, <<"*">>) THEN d + 9 ELSE d + 8
                 hasTime == MatchClasses(s, t, Digits4)
             IN  Matched(IF hasTime THEN t + 4 ELSE t,
                         <<SubSeq(s, d, d + 7),
                           IF hasTime THEN SubSeq(s, t, t + 3) ELSE <<>> >>)
        ELSE NoMatch

LitSN1 == <<"S", "N", "1", "*">>

\* SN1\*[0-9]+\*([0-9]+)\*([A-Z]{2,3}) at position i
MatchSn1(s, i) ==
    IF ~LitAt(s, i, LitSN1) THEN NoMatch
    ELSE LET n1 == RunLen(s, i + 4, Digits)
             q == i + 4 + n1
             n2 == RunLen(s, q + 1, Digits)
             u == q + 1 + n2
             n3raw == RunLen(s, u + 1, Upper)
             n3 == IF n3raw > 3 THEN 3 ELSE n3raw
         IN  IF n1 >= 1 /\ LitAt(s, q, <<"*">>) /\ n2 >= 1
                /\ LitAt(s, u, <<"*">>) /\ n3 >= 2
             THEN Matched(u + 1 + n3,
                          <<SubSeq(s, q + 1, q + n2), SubSeq(s, u + 1, u + n3)>>)
             ELSE NoMatch

Sn1Tries(s) == <<>> \o [j \in 1..Len(s) |-> MatchSn1(s, j)]

LitCERT == <<"C", "E", "R", "T", "*">>

\* CERT\*([A-Z0-9_]+)\*([0-9]{8}) at position i
MatchCert(s, i) ==
    IF ~LitAt(s, i, LitCERT) THEN NoMatch
    ELSE LET n1 == RunLen(s, i + 5, AlNumUpper \cup {"_"})
             q == i + 5 + n1
         IN  IF n1 >= 1 /\ LitAt(s, q, <<"*">>)
                /\ MatchClasses(s, q + 1, Digits8)
             THEN Matched(q + 9, <<SubSeq(s, i + 5, q - 1), SubSeq(s, q + 1, q + 8)>>)
             ELSE NoMatch

CertTries(s) == <<>> \o [j \in 1..Len(s) |-> MatchCert(s, j)]

MatchDtm011(s, i) == MatchDtm(<<"0", "1", "1">>, s, i)

Dtm011Tries(s) == <<>> \o [j \in 1..Len(s) |-> MatchDtm011(s, j)]

MatchDtm017(s, i) == MatchDtm(<<"0", "1", "7">>, s, i)

Dtm017Tries(s) == <<>> \o [j \in 1..Len(s) |-> MatchDtm017(s, j)]

MatchDtm137(s, i) == MatchDtm(<<"1", "3", "7">>, s, i)

Dtm137Tries(s) == <<>> \o [j \in 1..Len(s) |-> MatchDtm137(s, j)]

\* the least number of a non-empty finite set
Least(S) == CHOOSE x \in S : \A y \in S : x <= y

RECURSIVE FindFrom(_, _)
\* re.findall continued at position i, tries[j] being the pattern's match at
\* position j: the leftmost match at or after i, then the search goes on
\* behind it (matches do not overlap)
FindFrom(tries, i) ==
    LET starts == {j \in i..Len(tries) : tries[j].ok}
    IN  IF starts = {} THEN <<>>
        ELSE <<tries[Least(starts)].caps>>
             \o FindFrom(tries, tries[Least(starts)].end)

\* re.findall(pattern, s): the capture groups of each match, in order
FindAll(tries) == FindFrom(tries, 1)

\* the elements of a sequence, as a set
Range(f) == {f[k] : k \in DOMAIN f}

\* list(set(S)): every order in which the elements may come out
Orderings(S) ==
    {f \in [1..Cardinality(S) -> S] : \A a, b \in DOMAIN f : a # b => f[a] # f[b]}

(***************************************************************************)
(* Dates: datetime(year, month, day, hour, minute) in minutes              *)
(***************************************************************************)
DigitVal(c) ==
    CASE c = "0" -> 0 [] c = "1" -> 1 [] c = "2" -> 2 [] c = "3" -> 3
      [] c = "4" -> 4 [] c = "5" -> 5 [] c = "6" -> 6 [] c = "7" -> 7
      [] c = "8" -> 8 [] c = "9" -> 9

RECURSIVE ToInt(_)
\* int(s) for a string of decimal digits
ToInt(s) ==
    IF s = <<>> THEN 0
    ELSE 10 * ToInt(SubSeq(s, 1, Len(s) - 1)) + DigitVal(s[Len(s)])

IsLeap(y) == (y % 4 = 0) /\ ((y % 100 # 0) \/ (y % 400 = 0))

DaysInMonth(y, m) ==
    IF m = 2 THEN (IF IsLeap(y) THEN 29 ELSE 28)
    ELSE IF m \in {4, 6, 9, 11} THEN 30 ELSE 31

DaysBeforeMonth(y, m) ==
    <<0, 31, 59, 90, 120, 151, 181, 212, 243, 273, 304, 334>>[m]
    + (IF m > 2 /\ IsLeap(y) THEN 1 ELSE 0)

\* date.toordinal(): 0001-01-01 is day 1
Ordinal(y, m, d) ==
    (y - 1) * 365 + ((y - 1) \div 4) - ((y - 1) \div 100) + ((y - 1) \div 400)
    + DaysBeforeMonth(y, m) + d

MinutesPerDay == 24 * 60

\* the datetime constructor raises ValueError outside these ranges
ValidDateTime(y, m, d, h, mi) ==
    /\ y >= 1
    /\ m \in 1..12
    /\ d >= 1 /\ d <= DaysInMonth(y, m)
    /\ h \in 0..23
    /\ mi \in 0..59

DateTime(y, m, d, h, mi) == Ordinal(y, m, d) * MinutesPerDay + h * 60 + mi

\* datetime.weekday(): Monday is 0
Weekday(t) == ((t \div MinutesPerDay) + 6) % 7

\* datetime.hour
HourOf(t) == (t % MinutesPerDay) \div 60

\* timedelta.days of the difference a - b
DaysBetween(a, b) == (a - b) \div MinutesPerDay

(***************************************************************************)
(* validators/edi_validator.py                                             *)
(***************************************************************************)
required_segments ==
    << <<"I", "S", "A">>, <<"G", "S">>, <<"S", "T">>, <<"B", "S", "N">>,
       <<"H", "L">>, <<"S", "E">>, <<"G", "E">>, <<"I", "E", "A">> >>

LitISA == <<"I", "S", "A", "*">>

VendorPrefix == <<"W", "M", "T", "I", "N", "-">>

EdiNoContent ==
    Finding("FILE", "No file content found for validation",
            "Cannot validate empty or missing file content",
            "Ensure file is properly uploaded and contains data", <<>>)

EdiSystemError ==
    Finding("SYSTEM", "Validation error: {e}",
            "Internal validation error occurred",
            "Contact support if this error persists", <<>>)

\* the handler of an internal fault in EDIValidator.validate (102-114)
EdiFaultSegment == "SYSTEM"

\* a scan of the required tags that stops at the first missing one
MissingSegmentsFirstOnly(file_content) ==
    LET all == SelectSeq(required_segments,
                         LAMBDA t : ~HasSub(file_content, t \o <<"*">>))
    IN  IF all = <<>> THEN <<>> ELSE <<all[1]>>

\* required tags with no "<TAG>*" in the raw text, in table order
MissingSegments(file_content) ==
    SelectSeq(required_segments, LAMBDA t : ~HasSub(file_content, t \o <<"*">>))

\* the ISA field-count check (58-69)
IsaErrors(file_content) ==
    IF HasSub(file_content, LitISA)
    THEN LET isa_lines == SelectSeq(Split(file_content, NL),
                                    LAMBDA l : StartsWith(Strip(l), LitISA))
         IN  IF isa_lines # <<>> /\ Len(Split(isa_lines[1], "*")) < 16
             THEN << Finding("ISA", "ISA segment has insufficient fields",
                             "ISA segment has {n} fields, requires 16",
                             "Ensure ISA segment follows EDI X12 standard format",
                             <<Len(Split(isa_lines[1], "*"))>>) >>
             ELSE <<>>
    ELSE <<>>

\* a content test that takes no text for empty
NoFileContentNever(file_content) == FALSE

\* "if not file_content" (29): the text is empty or missing
NoFileContent(file_content) == file_content = <<>>

\* EDIValidator.validate; env.fault: an exception is raised inside the try
EDIValidate(pd, cfg, env) ==
    IF env.fault
    THEN [validator |-> "EDI Structure Validator",
          errors |-> << [EdiSystemError EXCEPT !.segment = EdiFaultSegment] >>,
          warnings |-> <<>>, success |-> FALSE,
          details |-> "Validation failed with error"]
    ELSE
    LET file_content == GetOr(pd, "content", <<>>)
    IN  IF NoFileContent(file_content)
        THEN [validator |-> "EDI Structure Validator",
              errors |-> <<EdiNoContent>>, warnings |-> <<>>,
              success |-> FALSE, details |-> "Validation failed - no content"]
        ELSE
        LET missing == MissingSegments(file_content)
            e1 == IF missing # <<>>
                  THEN << Finding("STRUCTURE", "Missing required EDI segments: {m}",
                                  "EDI file must contain all required segments for proper processing",
                                  "Add missing segments: {m}", missing) >>
                  ELSE <<>>
            errors == e1 \o IsaErrors(file_content)
            vendor_id == GetOr(cfg, "vendor_id", <<>>)
            w1 == IF vendor_id # <<>> /\ ~StartsWith(vendor_id, VendorPrefix)
                  THEN << Finding("CONFIG",
                                  "Vendor ID format may not follow Walmart India standard",
                                  "Vendor ID {v} does not start with WMTIN-",
                                  "Verify vendor ID format with Walmart India standards",
                                  <<vendor_id>>) >>
                  ELSE <<>>
            w2 == IF ~EndsWith(Strip(file_content), <<"~">>)
                  THEN << Finding("FILE",
                                  "EDI file should end with segment terminator (~)",
                                  "File does not end with proper EDI segment terminator",
                                  "Add ~ at the end of your EDI file", <<>>) >>
                  ELSE <<>>
        IN  [validator |-> "EDI Structure Validator",
             errors |-> errors,
             warnings |-> w1 \o w2,
             success |-> (Len(errors) = 0),
             details |-> <<Len(required_segments) - Len(missing),
                           Len(required_segments)>>]

(***************************************************************************)
(* validators/gstin_validator.py                                           *)
(***************************************************************************)
\* the keys of state_codes: '01' .. '38'
state_codes ==
    {<<a, b>> : a \in {"0", "1", "2", "3"}, b \in Digits}
    \ ({<<"0", "0">>, <<"3", "9">>})

\* _extract_gstins: both searches, duplicates removed
ExtractGstins(text) ==
    {m[1] : m \in Range(FindAll(RefTJTries(text)))}
    \cup {m[1] : m \in Range(FindAll(GstinShapeTries(text)))}

\* re.match(self.gstin_pattern, gstin)
GstinFormatOk(gstin) == Len(gstin) = 15 /\ MatchClasses(gstin, 1, GstinClasses)

\* _validate_gstin_checksum: the check character is alphanumeric
ValidateGstinChecksum(gstin) ==
    Len(gstin) >= 15 /\ gstin[15] \in (AlNumUpper \cup LowerLetters)

\* the PAN pattern applied to gstin[0:10], the state code included
PanOkFromStart(gstin) ==
    LET pan == SubSeq(gstin, 1, IF Len(gstin) < 10 THEN Len(gstin) ELSE 10)
    IN  Len(pan) = 10
        /\ MatchClasses(pan, 1, <<Upper, Upper, Upper, Upper, Upper, Digits,
                                  Digits, Digits, Digits, Upper>>)

\* re.match(r'^[A-Z]{5}[0-9]{4}[A-Z]{1}$', gstin[2:12])
PanOk(gstin) ==
    LET pan == SubSeq(gstin, 3, IF Len(gstin) < 12 THEN Len(gstin) ELSE 12)
    IN  Len(pan) = 10
        /\ MatchClasses(pan, 1, <<Upper, Upper, Upper, Upper, Upper, Digits,
                                  Digits, Digits, Digits, Upper>>)

\* the findings of one GSTIN candidate (the body of the for loop, 53-104)
GstinErrors(gstin, expected_state_code) ==
    IF ~GstinFormatOk(gstin)
    THEN << Finding("GSTIN", "Invalid GSTIN format: {gstin}",
                    "GSTIN must be 15 characters: 2-digit state + 10-digit PAN + 1-digit entity + 1-digit check + Z",
                    "Verify GSTIN format and ensure all characters are correct",
                    <<gstin>>) >>
    ELSE IF SubSeq(gstin, 1, 2) \notin state_codes
    THEN << Finding("GSTIN", "Invalid state code in GSTIN: {code}",
                    "State code {code} is not a valid Indian state code",
                    "Use a valid Indian state code (01-38)",
                    <<SubSeq(gstin, 1, 2)>>) >>
    ELSE
      (IF SubSeq(gstin, 1, 2) # expected_state_code
       THEN << Finding("GSTIN", "GSTIN state code mismatch",
                       "GSTIN state code {found} does not match selected state {expected}",
                       "Update GSTIN to use state code {expected} or change state selection",
                       <<SubSeq(gstin, 1, 2), expected_state_code>>) >>
       ELSE <<>>)
      \o
      (IF ~ValidateGstinChecksum(gstin)
       THEN << Finding("GSTIN", "GSTIN checksum validation failed: {gstin}",
                       "The GSTIN check digit does not match the calculated value",
                       "Verify the GSTIN number with the tax authority or recalculate the check digit",
                       <<gstin>>) >>
       ELSE <<>>)
      \o
      (IF ~PanOk(gstin)
       THEN << Finding("GSTIN", "Invalid PAN format within GSTIN: {pan}",
                       "PAN portion of GSTIN must follow format: 5 letters + 4 digits + 1 letter",
                       "Verify the PAN number format within the GSTIN",
                       <<SubSeq(gstin, 3, 12)>>) >>
       ELSE <<>>)

\* the segment of the error appended by the except clause (115-121)
GstinFaultSegment == "VALIDATION"

DefaultStateCode == <<"2", "7">>

\* GSTINValidator.validate; env.order is the order list(set(...)) came out in
GSTINValidate(pd, cfg, env) ==
    IF env.fault
    THEN [errors |-> << Finding(GstinFaultSegment, "GSTIN validation failed",
                                "Error during validation: {e}",
                                "Check GSTIN format and ensure it follows Indian tax ID standards",
                                <<>>) >>,
          warnings |-> <<>>]
    ELSE
    LET gstins == env.order
    IN  IF gstins = <<>>
        THEN [errors |-> <<>>,
              warnings |-> << Finding("GSTIN", "No GSTIN found in file",
                                      "Could not locate any GSTIN numbers in the EDI file",
                                      "Ensure GSTIN is included in the appropriate segments (REF*TJ* or N1 segments)",
                                      <<>>) >>]
        ELSE
        LET expected == GetOr(cfg, "state_code", DefaultStateCode)
            errors == Concat([k \in DOMAIN gstins |-> GstinErrors(gstins[k], expected)])
        IN  IF errors = <<>>
            THEN [success |-> TRUE, errors |-> errors, warnings |-> <<>>,
                  details |-> <<Len(gstins)>>]
            ELSE [errors |-> errors, warnings |-> <<>>]

(***************************************************************************)
(* validators/product_validator.py                                         *)
(***************************************************************************)
\* a product table one of whose keys has a valid GTIN check digit
product_database_checked ==
    { <<"0","0","0","1","2","3","4","5","6","7","8","9","0","5">>,
      <<"9","8","7","6","5","4","3","2","1","0","9","8","7","6">>,
      [k \in 1..14 |-> "1"],
      [k \in 1..14 |-> "2"] }

\* the keys of product_database
product_database ==
    { <<"1","2","3","4","5","6","7","8","9","0","1","2","3","4">>,
      <<"9","8","7","6","5","4","3","2","1","0","9","8","7","6">>,
      [k \in 1..14 |-> "1"],
      [k \in 1..14 |-> "2"] }

IsDigitStr(s) == s # <<>> /\ \A k \in 1..Len(s) : s[k] \in Digits

RECURSIVE WeightedSumFromOne(_, _)
\* the weights taken as 1, 3, 1, 3, ... from the leftmost digit
WeightedSumFromOne(digits, n) ==
    IF n = 0 THEN 0
    ELSE WeightedSumFromOne(digits, n - 1)
         + DigitVal(digits[n]) * (IF (n - 1) % 2 = 0 THEN 1 ELSE 3)

RECURSIVE WeightedSum(_, _)
\* sum(digit * (3 if i % 2 == 0 else 1)) over the first n digits, i from 0
WeightedSum(digits, n) ==
    IF n = 0 THEN 0
    ELSE WeightedSum(digits, n - 1)
         + DigitVal(digits[n]) * (IF (n - 1) % 2 = 0 THEN 3 ELSE 1)

\* _validate_gtin_checksum
ValidateGtinChecksum(code) ==
    IF Len(code) # 14 \/ ~IsDigitStr(code) THEN FALSE
    ELSE DigitVal(code[14]) = (10 - (WeightedSum(code, 13) % 10)) % 10

\* re.match(r'^(WIN|WM|55)[0-9]{8,12}$', code)
WinFormatOk(code) ==
    \E pre \in {<<"W", "I", "N">>, <<"W", "M">>, <<"5", "5">>} :
        /\ StartsWith(code, pre)
        /\ Len(code) - Len(pre) \in 8..12
        /\ \A k \in (Len(pre) + 1)..Len(code) : code[k] \in Digits

\* _extract_product_codes: LIN codes and 14-digit runs of LIN*/UPC*/GTIN*
\* lines, duplicates and empty strings removed
ExtractProductCodes(text) ==
    LET lines == Split(text, NL)
        marked == SelectSeq(lines, LAMBDA l :
                     \/ HasSub(l, LitLIN)
                     \/ HasSub(l, <<"U", "P", "C", "*">>)
                     \/ HasSub(l, <<"G", "T", "I", "N", "*">>))
    IN  ({m[1] : m \in Range(FindAll(LinTries(text)))}
         \cup UNION {{m[1] : m \in Range(FindAll(Gtin14Tries(l)))} : l \in Range(marked)})
        \ {<<>>}

\* the findings of one product code (the body of the for loop, 47-103)
ProductCodeFindings(code) ==
    IF Len(code) = 14 /\ IsDigitStr(code)
    THEN IF ~ValidateGtinChecksum(code)
         THEN [errors |-> << Finding("LIN", "GTIN checksum validation failed: {code}",
                                     "The GTIN check digit does not match the calculated value",
                                     "Verify the GTIN number or recalculate the check digit",
                                     <<code>>) >>,
               warnings |-> <<>>, validated |-> 0]
         ELSE IF code \notin product_database
         THEN [errors |-> << Finding("LIN", "Product code not found in database: {code}",
                                     "The GTIN is not registered in the Walmart master catalog",
                                     "Register the product in Walmart Retail Link or verify the GTIN number",
                                     <<code>>) >>,
               warnings |-> <<>>, validated |-> 0]
         ELSE [errors |-> <<>>, warnings |-> <<>>, validated |-> 1]
    ELSE IF WinFormatOk(code)
    THEN \* _validate_win repeats the same pattern test
         [errors |-> <<>>, warnings |-> <<>>, validated |-> 1]
    ELSE IF Len(code) = 12 /\ IsDigitStr(code)
    THEN [errors |-> <<>>,
          warnings |-> << Finding("LIN", "UPC-12 format detected: {code}",
                                  "Consider using GTIN-14 format for better compatibility",
                                  "Convert UPC-12 to GTIN-14 by padding with leading zeros",
                                  <<code>>) >>,
          validated |-> 1]
    ELSE [errors |-> << Finding("LIN", "Invalid product code format: {code}",
                                "Product code does not match GTIN-14, UPC-12, or WIN format",
                                "Use valid product identifiers: GTIN-14 (14 digits) or WIN (Walmart Item Number)",
                                <<code>>) >>,
          warnings |-> <<>>, validated |-> 0]

valid_uoms ==
    {<<"E", "A">>, <<"C", "S">>, <<"B", "X">>, <<"P", "K">>, <<"L", "B">>,
     <<"K", "G">>, <<"P", "C">>, <<"D", "Z">>}

LargeQuantity == 10000

\* the findings of one SN1 match (qty, uom) in _validate_product_quantities
QuantityFindings(m) ==
    LET qty_value == ToInt(m[1])
        uom == m[2]
    IN  [errors |-> IF qty_value <= 0
                    THEN << Finding("SN1", "Invalid quantity: {qty}",
                                    "Product quantity must be greater than zero",
                                    "Correct the quantity value in SN1 segment",
                                    <<qty_value>>) >>
                    ELSE <<>>,
         warnings |-> (IF qty_value > 0 /\ qty_value > LargeQuantity
                       THEN << Finding("SN1", "Large quantity detected: {qty}",
                                       "Quantity seems unusually high",
                                       "Verify the quantity is correct",
                                       <<qty_value>>) >>
                       ELSE <<>>)
                      \o
                      (IF uom \notin valid_uoms
                       THEN << Finding("SN1", "Uncommon unit of measure: {uom}",
                                       "Unit of measure {uom} may not be recognized",
                                       "Consider using standard UOM codes",
                                       <<uom>>) >>
                       ELSE <<>>)]

\* errors.append / warnings.append over a list of findings records, in order
Collect(findings, kind) == Concat([k \in DOMAIN findings |-> findings[k][kind]])

ProductFaultSegment == "VALIDATION"

\* the try body of ProductValidator.validate behind _extract_product_codes
\* (35-127); quantities are the SN1 matches of _validate_product_quantities
ProductChecks(product_codes, quantities) ==
        IF product_codes = <<>>
        THEN [errors |-> <<>>,
              warnings |-> << Finding("PRODUCT", "No product codes found in file",
                                      "Could not locate any product identifiers (GTIN, UPC, WIN) in the EDI file",
                                      "Ensure product codes are included in LIN segments or other appropriate locations",
                                      <<>>) >>]
        ELSE
        LET dup == IF Cardinality(Range(product_codes)) # Len(product_codes)
                   THEN << Finding("LIN", "Duplicate product codes detected",
                                   "Some product codes appear multiple times in the shipment",
                                   "Verify quantities and ensure each product line is correctly specified",
                                   <<>>) >>
                   ELSE <<>>
            codes == [k \in DOMAIN product_codes |->
                         ProductCodeFindings(product_codes[k])]
            qtys == [k \in DOMAIN quantities |-> QuantityFindings(quantities[k])]
            errors == Collect(codes, "errors") \o Collect(qtys, "errors")
            warnings == Collect(codes, "warnings")
                        \o dup
                        \o Collect(qtys, "warnings")
        IN  IF errors = <<>>
            THEN [success |-> TRUE, errors |-> errors, warnings |-> warnings,
                  details |-> <<Len(product_codes)>>]
            ELSE [errors |-> errors, warnings |-> warnings]

\* ProductValidator.validate; env.order is the order list(set(...)) came out in
ProductValidate(pd, cfg, env) ==
    IF env.fault
    THEN [errors |-> << Finding(ProductFaultSegment, "Product validation failed",
                                "Error during validation: {e}",
                                "Check product code format and ensure they follow GTIN or WIN standards",
                                <<>>) >>,
          warnings |-> <<>>]
    ELSE ProductChecks(env.order, FindAll(Sn1Tries(GetOr(pd, "content", <<>>))))

(***************************************************************************)
(* validators/timing_validator.py                                          *)
(***************************************************************************)
min_advance_hours == 0

max_advance_hours == 24

optimal_advance_hours == 12

\* one (date_str, time_str) match turned into a datetime, or "invalid"
\* where the datetime constructor raises ValueError
DtmValue(m) ==
    LET y == ToInt(SubSeq(m[1], 1, 4))
        mo == ToInt(SubSeq(m[1], 5, 6))
        d == ToInt(SubSeq(m[1], 7, 8))
        h == IF m[2] # <<>> THEN ToInt(SubSeq(m[2], 1, 2)) ELSE 12
        mi == IF m[2] # <<>> THEN ToInt(SubSeq(m[2], 3, 4)) ELSE 0
    IN  IF ValidDateTime(y, mo, d, h, mi)
        THEN [valid |-> TRUE, t |-> DateTime(y, mo, d, h, mi)]
        ELSE [valid |-> FALSE, t |-> 0]

\* the parseable ones of the matches of one qualifier, in text order
DtmValues(matches) ==
    SelectSeq([k \in DOMAIN matches |-> DtmValue(matches[k])], LAMBDA v : v.valid)

\* dates[date_type] = parsed_date: a later match overwrites an earlier one
LastDates(vals) ==
    [k \in {x \in DOMAIN vals : vals[x] # <<>>} |-> vals[k][Len(vals[k])].t]

\* _extract_dates: per date type the last parseable match
ExtractDates(text) ==
    LastDates([ship_date |-> DtmValues(FindAll(Dtm011Tries(text))),
               delivery_date |-> DtmValues(FindAll(Dtm017Tries(text))),
               creation_date |-> DtmValues(FindAll(Dtm137Tries(text)))])

\* a window check that reports only the early side
ShipFindingsEarlyOnly(ship_date, current_time) ==
    IF ship_date - current_time > max_advance_hours * 60
    THEN [errors |-> << Finding("DTM", "ASN submitted too early",
                                "ASN should be submitted between 0-24 hours before shipping",
                                "Submit ASN closer to ship date (within 24 hours)",
                                <<ship_date - current_time>>) >>,
          warnings |-> <<>>]
    ELSE [errors |-> <<>>, warnings |-> <<>>]

\* the ship-date window check (41-77): errors and warnings
ShipFindings(ship_date, current_time) ==
    LET until == ship_date - current_time   \* minutes
    IN  IF until > max_advance_hours * 60
        THEN [errors |-> << Finding("DTM", "ASN submitted too early",
                                    "ASN should be submitted between 0-24 hours before shipping",
                                    "Submit ASN closer to ship date (within 24 hours)",
                                    <<until>>) >>,
              warnings |-> <<>>]
        ELSE IF until < min_advance_hours * 60
        THEN IF until < 0
             THEN [errors |-> << Finding("DTM", "ASN submitted after ship date",
                                         "ASN must be submitted before the actual shipment",
                                         "Submit ASN before shipping or update ship date",
                                         <<until>>) >>,
                   warnings |-> <<>>]
             ELSE [errors |-> <<>>,
                   warnings |-> << Finding("DTM", "ASN submitted very close to ship time",
                                           "This may not provide sufficient processing time",
                                           "Consider submitting ASN earlier for better processing",
                                           <<until>>) >>]
        ELSE IF until > optimal_advance_hours * 60
        THEN [errors |-> <<>>,
              warnings |-> << Finding("DTM", "ASN submitted {h} hours before shipping",
                                      "While acceptable, optimal timing is around 12 hours",
                                      "Consider submitting closer to optimal timing window",
                                      <<until>>) >>]
        ELSE [errors |-> <<>>, warnings |-> <<>>]

NoFindings == [errors |-> <<>>, warnings |-> <<>>]

\* the delivery-window check (80-99)
DeliveryFindings(delivery_date, ship_date) ==
    LET window == delivery_date - ship_date
    IN  IF window < 60
        THEN [errors |-> << Finding("DTM", "Delivery date too close to ship date",
                                    "Only {w} hours between ship and delivery",
                                    "Allow sufficient transit time between ship and delivery dates",
                                    <<window>>) >>,
              warnings |-> <<>>]
        ELSE IF window > 72 * 60
        THEN [errors |-> <<>>,
              warnings |-> << Finding("DTM", "Long delivery window",
                                      "Delivery date is more than 3 days after ship date",
                                      "Verify delivery date is correct", <<window>>) >>]
        ELSE NoFindings

TimingFaultSegment == "VALIDATION"

\* the test for an empty dates dict left out
NoDatesNeverTaken(dates) == FALSE

\* "if not dates" (28)
NoDates(dates) == DOMAIN dates = {}

\* the try body of TimingValidator.validate behind _extract_dates (28-113);
\* current_time is datetime.now()
TimingChecks(dates, current_time) ==
    LET has(k) == k \in DOMAIN dates
    IN  IF NoDates(dates)
        THEN [errors |-> <<>>,
              warnings |-> << Finding("TIMING", "No dates found in ASN",
                                      "Could not locate shipment dates in the EDI file",
                                      "Ensure DTM segments include ship date and delivery date",
                                      <<>>) >>]
        ELSE
        LET ship == IF has("ship_date")
                    THEN ShipFindings(dates["ship_date"], current_time) ELSE NoFindings
            deliv == IF has("delivery_date") /\ has("ship_date")
                     THEN DeliveryFindings(dates["delivery_date"], dates["ship_date"])
                     ELSE NoFindings
            created == IF has("creation_date")
                          /\ current_time - dates["creation_date"] > 48 * 60
                       THEN << Finding("DTM", "ASN created {h} hours ago",
                                       "This ASN was created more than 2 days ago",
                                       "Consider creating fresh ASN closer to ship date",
                                       <<>>) >>
                       ELSE <<>>
            hours == IF has("ship_date")
                        /\ (HourOf(dates["ship_date"]) < 8 \/ HourOf(dates["ship_date"]) > 18)
                     THEN << Finding("DTM", "Ship time outside business hours",
                                     "Shipping scheduled outside typical business hours (8 AM - 6 PM)",
                                     "Consider scheduling shipment during business hours for better processing",
                                     <<>>) >>
                     ELSE <<>>
            shipwe == IF has("ship_date") /\ Weekday(dates["ship_date"]) >= 5
                      THEN << Finding("DTM", "Ship date falls on {day}",
                                      "Shipping scheduled on weekend",
                                      "Verify weekend shipping arrangements with carrier",
                                      <<>>) >>
                      ELSE <<>>
            delwe == IF has("delivery_date") /\ Weekday(dates["delivery_date"]) >= 5
                     THEN << Finding("DTM", "Delivery date falls on {day}",
                                     "Delivery scheduled on weekend",
                                     "Confirm weekend delivery is acceptable to receiver",
                                     <<>>) >>
                     ELSE <<>>
            errors == ship.errors \o deliv.errors
            warnings == ship.warnings \o deliv.warnings \o created \o hours
                        \o shipwe \o delwe
        IN  IF errors = <<>>
            THEN [success |-> TRUE, errors |-> errors, warnings |-> warnings,
                  details |-> "ASN timing validation passed"]
            ELSE [errors |-> errors, warnings |-> warnings]

\* TimingValidator.validate; env.now is datetime.now()
TimingValidate(pd, cfg, env) ==
    IF env.fault
    THEN [errors |-> << Finding(TimingFaultSegment, "ASN timing validation failed",
                                "Error during validation: {e}",
                                "Check date formats and ensure DTM segments are properly formatted",
                                <<>>) >>,
          warnings |-> <<>>]
    ELSE TimingChecks(ExtractDates(GetOr(pd, "content", <<>>)), env.now)

(***************************************************************************)
(* validators/certificate_validator.py                                     *)
(***************************************************************************)
ToLowerChar(c) ==
    CASE c = "A" -> "a" [] c = "B" -> "b" [] c = "C" -> "c" [] c = "D" -> "d"
      [] c = "E" -> "e" [] c = "F" -> "f" [] c = "G" -> "g" [] c = "H" ->
      "h" [] c = "I" -> "i" [] c = "J" -> "j" [] c = "K" -> "k" [] c = "L"
      -> "l" [] c = "M" -> "m" [] c = "N" -> "n" [] c = "O" -> "o" [] c =
      "P" -> "p" [] c = "Q" -> "q" [] c = "R" -> "r" [] c = "S" -> "s" [] c
      = "T" -> "t" [] c = "U" -> "u" [] c = "V" -> "v" [] c = "W" -> "w" []
      c = "X" -> "x" [] c = "Y" -> "y" [] c = "Z" -> "z"
      [] OTHER -> c

\* str.lower()
ToLower(s) == <<>> \o [k \in DOMAIN s |-> ToLowerChar(s[k])]

trusted_roots ==
    { <<"w", "a", "l", "m", "a", "r", "t", "_", "r", "o", "o", "t", "_", "c", "a">>,
      <<"v", "e", "r", "i", "s", "i", "g", "n", "_", "r", "o", "o", "t", "_", "c", "a">>,
      <<"d", "i", "g", "i", "c", "e", "r", "t", "_", "r", "o", "o", "t", "_", "c", "a">> }

min_key_size == 2048

warning_days_before_expiry == 30

critical_days_before_expiry == 7

RECURSIVE CertsFrom(_, _)
\* the certificates dict filled from the matches: a repeated name keeps its
\* place and takes the later expiry; an impossible date is skipped
CertsFrom(matches, certs) ==
    IF matches = <<>> THEN certs
    ELSE LET m == Head(matches)
             y == ToInt(SubSeq(m[2], 1, 4))
             mo == ToInt(SubSeq(m[2], 5, 6))
             d == ToInt(SubSeq(m[2], 7, 8))
             c == [name |-> m[1], expiry_date |-> DateTime(y, mo, d, 0, 0),
                   key_size |-> 0, issuer |-> <<>>, key_usage |-> {},
                   signature_algorithm |-> <<>>, source |-> "edi_content"]
             at == {k \in DOMAIN certs : certs[k].name = m[1]}
         IN  IF ~ValidDateTime(y, mo, d, 0, 0) THEN CertsFrom(Tail(matches), certs)
             ELSE IF at = {} THEN CertsFrom(Tail(matches), Append(certs, c))
             ELSE CertsFrom(Tail(matches),
                            [k \in DOMAIN certs |-> IF k \in at THEN c ELSE certs[k]])

\* _extract_certificates
ExtractCertificates(text) == CertsFrom(FindAll(CertTries(text)), <<>>)

SHA256withRSA == <<"S", "H", "A", "2", "5", "6", "w", "i", "t", "h", "R", "S", "A">>

\* _create_sample_certificates, current_date being datetime.now()
CreateSampleCertificates(current_date) ==
    << [name |-> "vendor_signing_cert",
        expiry_date |-> current_date + 5 * MinutesPerDay,
        key_size |-> 2048,
        issuer |-> <<"D", "i", "g", "i", "C", "e", "r", "t", " ", "G", "l", "o",
                    "b", "a", "l", " ", "R", "o", "o", "t", " ", "C", "A">>,
        key_usage |-> {"digital_signature", "key_encipherment"},
        signature_algorithm |-> SHA256withRSA,
        source |-> "sample"],
       [name |-> "vendor_encryption_cert",
        expiry_date |-> current_date + 90 * MinutesPerDay,
        key_size |-> 2048,
        issuer |-> <<"V", "e", "r", "i", "S", "i", "g", "n", " ", "C", "l", "a",
                    "s", "s", " ", "3", " ", "P", "u", "b", "l", "i", "c", " ",
                    "P", "r", "i", "m", "a", "r", "y", " ", "C", "A">>,
        key_usage |-> {"key_encipherment", "data_encipherment"},
        signature_algorithm |-> SHA256withRSA,
        source |-> "sample"],
       [name |-> "walmart_public_cert",
        expiry_date |-> current_date + 365 * MinutesPerDay,
        key_size |-> 4096,
        issuer |-> <<"W", "a", "l", "m", "a", "r", "t", " ", "R", "o", "o", "t",
                    " ", "C", "A">>,
        key_usage |-> {"digital_signature", "key_encipherment"},
        signature_algorithm |-> SHA256withRSA,
        source |-> "sample"] >>

weak_algorithms == {<<"m", "d", "5">>, <<"s", "h", "a", "1">>}

\* the findings of one certificate (the body of the for loop, 47-116);
\* at is datetime.now() when its expiry is looked at
CertFindings(cert, at) ==
    LET days == DaysBetween(cert.expiry_date, at)
        CF(msg, det, sug) == Finding("CERTIFICATE", msg, det, sug, <<cert.name>>)
        issuer == ToLower(cert.issuer)
        algorithm == ToLower(cert.signature_algorithm)
    IN  [errors |->
            IF days < 0
            THEN << CF("Certificate expired: {name}",
                       "Certificate expired {n} days ago",
                       "Renew the certificate immediately to avoid transmission failures") >>
            ELSE IF days <= critical_days_before_expiry
            THEN << CF("Certificate expires soon: {name}",
                       "Certificate expires in {n} days",
                       "Renew the certificate urgently to prevent service disruption") >>
            ELSE <<>>,
         warnings |->
            (IF days > critical_days_before_expiry /\ days <= warning_days_before_expiry
             THEN << CF("Certificate expires in {n} days: {name}",
                        "Certificate expiring within warning period",
                        "Plan certificate renewal to avoid last-minute issues") >>
             ELSE <<>>)
            \o
            (IF cert.key_size > 0 /\ cert.key_size < min_key_size
             THEN << CF("Weak key size: {name}",
                        "Key size is below recommended minimum",
                        "Use certificates with at least 2048-bit keys for better security") >>
             ELSE <<>>)
            \o
            (IF cert.issuer # <<>>
                /\ ~\E root \in trusted_roots : HasSub(issuer, root)
             THEN << CF("Untrusted certificate issuer: {name}",
                        "Certificate issued by: {issuer}",
                        "Ensure certificate is issued by a trusted CA recognized by Walmart") >>
             ELSE <<>>)
            \o
            (IF cert.key_usage # {} /\ "digital_signature" \notin cert.key_usage
             THEN << CF("Certificate may not support digital signatures: {name}",
                        "Certificate key usage does not explicitly include digital signatures",
                        "Verify certificate supports required AS2 operations") >>
             ELSE <<>>)
            \o
            (IF \E weak \in weak_algorithms : HasSub(algorithm, weak)
             THEN << CF("Weak signature algorithm: {name}",
                        "Certificate uses an algorithm which is considered weak",
                        "Use certificates with SHA-256 or stronger signature algorithms") >>
             ELSE <<>>)]

as2_settings == [compression |-> FALSE, encryption |-> TRUE, signing |-> TRUE,
                 mdn_required |-> TRUE, mdn_signed |-> TRUE]

\* _validate_as2_config: warnings only
As2Warnings ==
    LET W(msg, det, sug) == Finding("AS2_CONFIG", msg, det, sug, <<>>)
    IN  (IF ~as2_settings.encryption
         THEN << W("Encryption not enabled",
                   "AS2 transmission without encryption may not meet security requirements",
                   "Enable AS2 encryption for secure data transmission") >>
         ELSE <<>>)
        \o
        (IF ~as2_settings.signing
         THEN << W("Digital signing not enabled",
                   "AS2 transmission without digital signatures may not provide non-repudiation",
                   "Enable AS2 digital signing for message integrity") >>
         ELSE <<>>)
        \o
        (IF ~as2_settings.mdn_required
         THEN << W("MDN (Message Disposition Notification) not required",
                   "Without MDN, delivery confirmation is not available",
                   "Enable MDN requirement for delivery confirmation") >>
         ELSE IF ~as2_settings.mdn_signed
         THEN << W("MDN signing not enabled",
                   "Unsigned MDNs may not provide reliable delivery confirmation",
                   "Enable MDN signing for secure delivery confirmation") >>
         ELSE <<>>)

CertFaultSegment == "VALIDATION"

\* the try body of CertificateValidator.validate behind
\* _extract_certificates (33-130); found are the certificates of the file,
\* tick the time that passes between _create_sample_certificates and the
\* look at the expiry
CertificateChecks(found, current_date, tick) ==
    LET none == IF found = <<>>
                THEN << Finding("CERTIFICATE", "No AS2 certificates found",
                                "Could not locate AS2 certificate information in the file or configuration",
                                "Ensure AS2 certificates are properly configured for secure transmission",
                                <<>>) >>
                ELSE <<>>
        certificates == IF found = <<>> THEN CreateSampleCertificates(current_date)
                        ELSE found
        at == IF found = <<>> THEN current_date + tick ELSE current_date
        checked == [k \in DOMAIN certificates |-> CertFindings(certificates[k], at)]
        errors == Collect(checked, "errors")
        warnings == none
                    \o Collect(checked, "warnings")
                    \o As2Warnings
    IN  IF errors = <<>>
        THEN [success |-> TRUE, errors |-> errors, warnings |-> warnings,
              details |-> <<Len(certificates)>>]
        ELSE [errors |-> errors, warnings |-> warnings]

\* CertificateValidator.validate; env.now is datetime.now()
CertificateValidate(pd, cfg, env) ==
    IF env.fault
    THEN [errors |-> << Finding(CertFaultSegment, "Certificate validation failed",
                                "Error during validation: {e}",
                                "Check AS2 certificate configuration and ensure certificates are accessible",
                                <<>>) >>,
          warnings |-> <<>>]
    ELSE CertificateChecks(ExtractCertificates(GetOr(pd, "content", <<>>)),
                           env.now, env.tick)

(***************************************************************************)
(* validators/coldchain_validator.py                                       *)
(***************************************************************************)
RiskLevels == {"LOW", "MEDIUM", "HIGH", "UNKNOWN"}

\* a validate whose except clause leaves overall_status as it was initialised
ColdChainValidatePending(pd, cfg, env) ==
    IF env.fault
    THEN [sensor_health |-> "none", document_compliance |-> "none",
          spoilage_risk |-> "none", overall_status |-> "PENDING",
          blocking_issues |-> <<"Cold chain validation error">>,
          warnings |-> <<>>, success |-> FALSE,
          details |-> "Cold chain validation completed"]
    ELSE [sensor_health |-> "checked", document_compliance |-> "checked",
          spoilage_risk |-> env.risk,
          overall_status |-> IF env.risk = "HIGH" THEN "BLOCKED" ELSE "APPROVED",
          blocking_issues |-> IF env.risk = "HIGH"
                              THEN <<"High spoilage risk detected">> ELSE <<>>,
          warnings |-> IF env.risk = "MEDIUM"
                       THEN << [text |-> "Medium spoilage risk"] >> ELSE <<>>,
          success |-> (env.risk # "HIGH"),
          details |-> IF env.risk # "HIGH"
                      THEN "Cold chain validation passed - shipment approved for dispatch"
                      ELSE "Cold chain validation failed - shipment blocked"]

\* ColdChainValidator.validate: the mocked sensor calibration is 180 days
\* old and the mocked documents never block, so blocking_issues come from
\* the risk scorer (env.risk) or from an internal fault
ColdChainValidate(pd, cfg, env) ==
    IF env.fault
    THEN [sensor_health |-> "none", document_compliance |-> "none",
          spoilage_risk |-> "none", overall_status |-> "ERROR",
          blocking_issues |-> <<"Cold chain validation error">>,
          warnings |-> <<>>, success |-> FALSE,
          details |-> "Cold chain validation completed"]
    ELSE
    LET blocking == IF env.risk = "HIGH"
                    THEN <<"High spoilage risk detected">> ELSE <<>>
        \* the entry is a plain string: it has none of the keys of a finding
        warns == IF env.risk = "MEDIUM"
                 THEN << [text |-> "Medium spoilage risk"] >> ELSE <<>>
    IN  [sensor_health |-> "checked", document_compliance |-> "checked",
         spoilage_risk |-> env.risk,
         overall_status |-> IF blocking = <<>> THEN "APPROVED" ELSE "BLOCKED",
         blocking_issues |-> blocking,
         warnings |-> warns,
         success |-> (blocking = <<>>),
         details |-> IF blocking = <<>>
                     THEN "Cold chain validation passed - shipment approved for dispatch"
                     ELSE "Cold chain validation failed - shipment blocked"]

(***************************************************************************)
(* app.py / app_backup.py: validate_file                                   *)
(***************************************************************************)
CanonicalOrder == <<"edi", "gstin", "products", "timing", "certificates">>

FiveValidators == Range(CanonicalOrder)

AllValidators == FiveValidators \cup {"coldchain"}

DefaultModules == [vendorladon |-> TRUE, coldchain |-> FALSE]

\* app.py 560-575: the pipeline of the detected modules
BuildPipelineApp(cfg) ==
    LET detected_modules == GetOr(cfg, "detected_modules", DefaultModules)
    IN  (IF detected_modules.vendorladon
         THEN <<"edi", "gstin", "products", "timing", "certificates">>
         ELSE <<>>)
        \o (IF detected_modules.coldchain THEN <<"coldchain">> ELSE <<>>)

\* the flags read in another order: products before gstin
BuildPipelineBackupSwapped(cfg) ==
    (IF cfg.validate_edi THEN <<"edi">> ELSE <<>>)
    \o (IF cfg.validate_products THEN <<"products">> ELSE <<>>)
    \o (IF cfg.validate_gstin THEN <<"gstin">> ELSE <<>>)
    \o (IF cfg.validate_timing THEN <<"timing">> ELSE <<>>)
    \o (IF cfg.validate_certificates THEN <<"certificates">> ELSE <<>>)

\* app_backup.py 757-762: the pipeline of the validate_* flags
BuildPipelineBackup(cfg) ==
    (IF cfg.validate_edi THEN <<"edi">> ELSE <<>>)
    \o (IF cfg.validate_gstin THEN <<"gstin">> ELSE <<>>)
    \o (IF cfg.validate_products THEN <<"products">> ELSE <<>>)
    \o (IF cfg.validate_timing THEN <<"timing">> ELSE <<>>)
    \o (IF cfg.validate_certificates THEN <<"certificates">> ELSE <<>>)

BuildPipeline(v, cfg) ==
    IF v = "app" THEN BuildPipelineApp(cfg) ELSE BuildPipelineBackup(cfg)

\* validator.validate(parsed_data, config) of the validator chosen by key
Validate(key, pd, cfg, env) ==
    CASE key = "edi" -> EDIValidate(pd, cfg, env)
      [] key = "gstin" -> GSTINValidate(pd, cfg, env)
      [] key = "products" -> ProductValidate(pd, cfg, env)
      [] key = "timing" -> TimingValidate(pd, cfg, env)
      [] key = "certificates" -> CertificateValidate(pd, cfg, env)
      [] key = "coldchain" -> ColdChainValidate(pd, cfg, env)

\* What a validate call draws from outside its arguments: whether a fault is
\* raised inside it, the order a set is listed in, the clock, the risk scorer.
EnvChoices(key, pd, clock, faulty) ==
    LET text == GetOr(pd, "content", <<>>)
        orders == IF key \in faulty THEN {<<>>}
                  ELSE IF key = "gstin" THEN Orderings(ExtractGstins(text))
                  ELSE IF key = "products" THEN Orderings(ExtractProductCodes(text))
                  ELSE {<<>>}
        ticks == IF key = "certificates" /\ key \notin faulty
                    /\ ExtractCertificates(text) = <<>>
                 THEN {0, 1} ELSE {0}
        risks == IF key = "coldchain" /\ key \notin faulty THEN RiskLevels
                 ELSE {"LOW"}
    IN  {[fault |-> key \in faulty, order |-> o, now |-> clock, tick |-> t,
          risk |-> r] : o \in orders, t \in ticks, r \in risks}

\* results['validations'][key] = result: a new key goes last
DictSet(d, key, result) ==
    IF \E k \in DOMAIN d : d[k].key = key
    THEN [k \in DOMAIN d |-> IF d[k].key = key
                             THEN [key |-> key, result |-> result] ELSE d[k]]
    ELSE Append(d, [key |-> key, result |-> result])

InitialSummary ==
    [total_errors |-> 0, total_warnings |-> 0, total_validations |-> 0,
     is_ready |-> FALSE]

\* counters that take the blocking issues of a result for errors
AggregateCountsBlocking(sm, result) ==
    [sm EXCEPT !.total_errors = @ + Len(GetOr(result, "errors", <<>>))
                                  + Len(GetOr(result, "blocking_issues", <<>>)),
               !.total_warnings = @ + Len(GetOr(result, "warnings", <<>>)),
               !.total_validations = @ + 1]

\* counters that are assigned, not added to
AggregateAssigns(sm, result) ==
    [sm EXCEPT !.total_errors = Len(GetOr(result, "errors", <<>>)),
               !.total_warnings = Len(GetOr(result, "warnings", <<>>)),
               !.total_validations = @ + 1]

\* app.py 603-605: the counters after one more result
Aggregate(sm, result) ==
    [sm EXCEPT !.total_errors = @ + Len(GetOr(result, "errors", <<>>)),
               !.total_warnings = @ + Len(GetOr(result, "warnings", <<>>)),
               !.total_validations = @ + 1]

\* readiness that warnings block as well
IsReadyWithoutFindings(sm) == sm.total_errors + sm.total_warnings = 0

\* app.py 613
IsReady(sm) == sm.total_errors = 0

\* app.py 555-577: read and parse the file, configure the pipeline
Start ==
    /\ pc = "start"
    /\ parsed_data' = parse_edi_file(content)
    /\ validation_pipeline' = BuildPipeline(variant, config)
    /\ pc' = "loop"
    /\ UNCHANGED <<gtin, checksum_valid, variant, input_lines, content, config, now, faults,
                   executed, validations, summary>>

\* the validator the loop is at
validator_key == validation_pipeline[Len(executed) + 1]

\* app.py 589-605: the result is stored and counted
StoreResult(key, validation_result) ==
    /\ validations' = DictSet(validations, key, validation_result)
    /\ summary' = Aggregate(summary, validation_result)
    /\ executed' = Append(executed, [key |-> key, parsed_data |-> parsed_data,
                                     config |-> config])

\* an iteration whose validator consumes the text of the document it is given
RunValidatorConsumesContent ==
    /\ pc = "loop"
    /\ Len(executed) < Len(validation_pipeline)
    /\ \E env \in EnvChoices(validator_key, parsed_data, now, faults) :
          StoreResult(validator_key,
                      Validate(validator_key, parsed_data, config, env))
    /\ parsed_data' = [parsed_data EXCEPT !.content = <<>>]
    /\ UNCHANGED <<gtin, checksum_valid, variant, input_lines, content, config, now, faults, pc,
                   validation_pipeline>>

\* app.py 580-605: one iteration of the loop over validation_pipeline
RunValidator ==
    /\ pc = "loop"
    /\ Len(executed) < Len(validation_pipeline)
    /\ \E env \in EnvChoices(validator_key, parsed_data, now, faults) :
          StoreResult(validator_key,
                      Validate(validator_key, parsed_data, config, env))
    /\ UNCHANGED <<gtin, checksum_valid, variant, input_lines, content, config, now, faults, pc,
                   parsed_data, validation_pipeline>>

\* app.py 607-616: the verdict, and the report is stored
Finalize ==
    /\ pc = "loop"
    /\ Len(executed) = Len(validation_pipeline)
    /\ summary' = [summary EXCEPT !.is_ready = IsReady(summary)]
    /\ pc' = "done"
    /\ UNCHANGED <<gtin, checksum_valid, variant, input_lines, content, config, now, faults,
                   parsed_data, validation_pipeline, executed, validations>>

Next == Start \/ RunValidator \/ Finalize

(***************************************************************************)
(* Inputs of the orchestrator runs                                         *)
(***************************************************************************)
Text(ls) == Join(ls, <<NL>>)

L_ISA == <<"I", "S", "A", "*", "0", "*", "0", "*", "0", "*", "0", "*", "Z", "*", "S", "*", "Z", "*", "R", "*", "1", "*", "1", "*", "U", "*", "4", "*", "7", "*", "0", "*", "P">>
L_ISA_short == <<"I", "S", "A", "*", "0", "*", "0">>
L_GS == <<"G", "S", "*", "S", "H", "*", "S", "*", "R", "*", "1", "*", "1", "*", "5", "*", "X", "*", "4">>
L_ST == <<"S", "T", "*", "8", "5", "6", "*", "0", "0", "0", "1">>
L_BSN == <<"B", "S", "N", "*", "0", "0", "*", "S", "1", "*", "1", "*", "1">>
L_HL == <<"H", "L", "*", "1", "*", "*", "S">>
L_SE == <<"S", "E", "*", "9", "*", "0", "0", "0", "1">>
L_GE == <<"G", "E", "*", "1", "*", "5">>
L_IEA == <<"I", "E", "A", "*", "1", "*", "7", "~">>
L_IEA_noterm == <<"I", "E", "A", "*", "1", "*", "7">>

\* envelopes: <<header lines, trailer lines>>
Envelopes ==
    { << <<L_ISA, L_GS, L_ST, L_BSN, L_HL>>, <<L_SE, L_GE, L_IEA>> >>,
      << <<L_ISA, L_GS, L_ST, L_BSN, L_HL>>, <<L_SE, L_GE, L_IEA_noterm>> >>,
      << <<L_ISA_short, L_ST, L_BSN>>, <<L_SE, L_IEA>> >>,
      << <<>>, <<>> >> }

L_REF_27 == <<"R", "E", "F", "*", "T", "J", "*", "2", "7", "A", "B", "C", "D", "E", "1", "2", "3", "4", "F", "1", "Z", "5">>
L_REF_07 == <<"R", "E", "F", "*", "T", "J", "*", "0", "7", "A", "B", "C", "D", "E", "1", "2", "3", "4", "F", "1", "Z", "5">>
L_REF_badformat == <<"R", "E", "F", "*", "T", "J", "*", "2", "7", "A", "B", "C", "D", "E", "1", "2", "3", "4", "F", "1", "A", "5">>
L_N1_99 == <<"N", "1", "*", "V", "N", "*", "9", "9", "A", "B", "C", "D", "E", "1", "2", "3", "4", "F", "1", "Z", "5">>

L_REF_07_badpan == <<"R", "E", "F", "*", "T", "J", "*", "0", "7", "A", "B", "C", "D", "1", "1", "2", "3", "4", "F", "1", "Z", "5">>

GstinLines == { <<>>, <<L_REF_27>>, <<L_REF_07>>, <<L_REF_badformat>>,
                <<L_REF_27, L_N1_99>>, <<L_REF_07_badpan>> }

L_LIN_gtin_valid == <<"L", "I", "N", "*", "1", "*", "U", "P", "*", "0", "0", "0", "1", "2", "3", "4", "5", "6", "7", "8", "9", "0", "5">>
L_LIN_gtin_table == <<"L", "I", "N", "*", "1", "*", "U", "P", "*", "1", "2", "3", "4", "5", "6", "7", "8", "9", "0", "1", "2", "3", "4">>
L_LIN_upc12 == <<"L", "I", "N", "*", "2", "*", "U", "P", "*", "1", "2", "3", "4", "5", "6", "7", "8", "9", "0", "1", "2">>
L_LIN_win == <<"L", "I", "N", "*", "1", "*", "I", "N", "*", "W", "M", "1", "2", "3", "4", "5", "6", "7", "8">>
L_SN1_ok == <<"S", "N", "1", "*", "1", "*", "1", "0", "*", "E", "A">>
L_SN1_zero == <<"S", "N", "1", "*", "2", "*", "0", "*", "X", "X">>

L_LIN_win_again == <<"L", "I", "N", "*", "2", "*", "I", "N", "*", "W", "M", "1", "2", "3", "4", "5", "6", "7", "8">>
L_LIN_upc12_55 == <<"L", "I", "N", "*", "2", "*", "U", "P", "*", "5", "5", "1", "2", "3", "4", "5", "6", "7", "8", "9", "0">>

ProductLines == { <<>>, <<L_LIN_gtin_valid>>, <<L_LIN_gtin_table>>,
                  <<L_LIN_upc12, L_SN1_zero>>, <<L_LIN_win, L_SN1_ok>>,
                  <<L_LIN_win, L_LIN_upc12>>, <<L_LIN_win, L_LIN_win_again>>,
                  <<L_SN1_zero>>, <<L_LIN_upc12_55>> }

L_DTM_ship == <<"D", "T", "M", "*", "0", "1", "1", "*", "2", "0", "2", "4", "0", "3", "1", "5", "*", "1", "4", "0", "0">>
L_DTM_delivery == <<"D", "T", "M", "*", "0", "1", "7", "*", "2", "0", "2", "4", "0", "3", "1", "6", "*", "0", "9", "0", "0">>

DateLines == { <<>>, <<L_DTM_ship>>, <<L_DTM_ship, L_DTM_delivery>> }

L_CERT_far == <<"C", "E", "R", "T", "*", "A", "S", "2", "_", "V", "E", "N", "D", "O", "R", "*", "2", "0", "2", "4", "1", "0", "0", "1">>
L_CERT_expired == <<"C", "E", "R", "T", "*", "A", "S", "2", "_", "O", "L", "D", "*", "2", "0", "2", "4", "0", "3", "0", "1">>

L_CERT_week == <<"C", "E", "R", "T", "*", "A", "S", "2", "_", "W", "E", "E", "K", "*", "2", "0", "2", "4", "0", "3", "2", "3">>
L_CERT_month == <<"C", "E", "R", "T", "*", "A", "S", "2", "_", "M", "O", "N", "T", "H", "*", "2", "0", "2", "4", "0", "4", "1", "0">>

CertLines == { <<>>, <<L_CERT_far>>, <<L_CERT_expired>>, <<L_CERT_week>>,
               <<L_CERT_month>> }

\* the ship date of L_DTM_ship: Friday 2024-03-15 14:00
ShipTime == DateTime(2024, 3, 15, 14, 0)

\* the clock: 10, 13 and 25 hours before the ship date, 1 hour after it
Clocks == {ShipTime - 10 * 60, ShipTime - 13 * 60, ShipTime - 25 * 60, ShipTime + 60}

\* the clock at the edges of the submission window: 24 hours before the ship
\* date and one minute earlier, half an hour before the ship date, the ship
\* date itself and one minute later
EdgeClocks == {ShipTime - 24 * 60, ShipTime - 24 * 60 - 1, ShipTime - 30,
               ShipTime, ShipTime + 1}

DocOf(env, g, p, d, c) == env[1] \o g \o p \o d \o c \o env[2]

EnvFull == << <<L_ISA, L_GS, L_ST, L_BSN, L_HL>>, <<L_SE, L_GE, L_IEA>> >>

EnvBare == << <<>>, <<>> >>

EnvNoTerminator ==
    << <<L_ISA, L_GS, L_ST, L_BSN, L_HL>>, <<L_SE, L_GE, L_IEA_noterm>> >>

\* Documents: one block of lines varies around a document without errors
\* (full envelope) and around a document without envelope.
Docs ==
    UNION { {DocOf(env, <<L_REF_27>>, <<L_LIN_win, L_SN1_ok>>, <<L_DTM_ship>>,
                   <<L_CERT_far>>) : env \in Envelopes},
            {DocOf(env, g, <<L_LIN_win, L_SN1_ok>>, <<L_DTM_ship>>, <<L_CERT_far>>) :
                 env \in {EnvFull, EnvBare}, g \in GstinLines},
            {DocOf(env, <<L_REF_27>>, p, <<L_DTM_ship>>, <<L_CERT_far>>) :
                 env \in {EnvFull, EnvBare}, p \in ProductLines},
            {DocOf(env, <<L_REF_27>>, <<L_LIN_win, L_SN1_ok>>, d, <<L_CERT_far>>) :
                 env \in {EnvFull, EnvBare}, d \in DateLines},
            {DocOf(env, <<L_REF_27>>, <<L_LIN_win, L_SN1_ok>>, <<L_DTM_ship>>, c) :
                 env \in {EnvFull, EnvBare}, c \in CertLines},
            {DocOf(EnvBare, g, p, <<>>, <<>>) : g \in GstinLines, p \in ProductLines},
            {DocOf(EnvNoTerminator, <<L_REF_27>>, <<L_LIN_win, L_LIN_upc12>>,
                   <<L_DTM_ship, L_DTM_delivery>>, <<L_CERT_far>>)} }

\* the empty upload: one empty line
EmptyDoc == << <<>> >>

V_wmtin == <<"W", "M", "T", "I", "N", "-", "1">>
V_other == <<"V", "-", "1">>
\* the Vendor ID field left as the form shows it: empty
V_empty == <<>>

BaseConfig(vendor, state) ==
    [vendor_id |-> vendor, shipment_id |-> "SHP001", state_code |-> state,
     state_name |-> "Maharashtra"]

BaseConfigs == {BaseConfig(v, st) : v \in {V_wmtin, V_other, V_empty},
                                    st \in {<<"2", "7">>}}

\* config as app.py assembles it (453-459)
AppConfigs ==
    {[x \in (DOMAIN b) \cup {"detected_modules"} |->
         IF x = "detected_modules" THEN [vendorladon |-> vl, coldchain |-> cc]
         ELSE b[x]] : b \in BaseConfigs, vl \in BOOLEAN, cc \in BOOLEAN}

FlagNames == {"validate_edi", "validate_gstin", "validate_products",
              "validate_timing", "validate_certificates"}

\* config as app_backup.py assembles it (646-656)
BackupConfigs ==
    {[x \in (DOMAIN b) \cup FlagNames |->
         IF x \in FlagNames THEN x \in on ELSE b[x]] :
       b \in BaseConfigs, on \in SUBSET FlagNames}

AllFive == [vendorladon |-> TRUE, coldchain |-> FALSE]

\* Runs of every document under the full pipeline, runs of one document at the
\* edges of the submission window, and runs of a few documents under every
\* configuration and every set of internal faults.
Init ==
    /\ \/ /\ variant = "app"
          /\ input_lines \in Docs \cup {EmptyDoc}
          /\ config \in {c \in AppConfigs : c.detected_modules = AllFive}
          /\ now \in Clocks
          /\ faults = {}
       \/ /\ variant = "app"
          /\ input_lines = DocOf(EnvFull, <<L_REF_27>>, <<L_LIN_win, L_SN1_ok>>,
                                 <<L_DTM_ship>>, <<L_CERT_far>>)
          /\ config \in {c \in AppConfigs : c.detected_modules = AllFive
                                            /\ c.vendor_id = V_wmtin}
          /\ now \in EdgeClocks
          /\ faults = {}
       \/ /\ variant \in {"app", "app_backup"}
          /\ input_lines \in {EmptyDoc,
                              DocOf(EnvFull, <<L_REF_07>>, <<L_LIN_win, L_SN1_ok>>,
                                    <<L_DTM_ship>>, <<L_CERT_far>>)}
          /\ config \in {c \in (IF variant = "app" THEN AppConfigs
                                 ELSE BackupConfigs) : c.vendor_id = V_wmtin}
          /\ now = ShipTime - 10 * 60
          /\ faults \in {f \in SUBSET AllValidators : Cardinality(f) <= 1}
    /\ content = Text(input_lines)
    /\ pc = "start"
    /\ parsed_data = NotParsed
    /\ validation_pipeline = <<>>
    /\ executed = <<>>
    /\ validations = <<>>
    /\ summary = InitialSummary
    /\ gtin = <<>>
    /\ checksum_valid = FALSE

Spec == Init /\ [][Next]_vars

(***************************************************************************)
(* Runs of the parser alone                                                *)
(***************************************************************************)
P_blank == <<>>
P_space == <<" ">>
P_ST_0002 == <<"S", "T", "*", "8", "5", "7", "*", "0", "0", "0", "2">>
P_ST_type_only == <<"S", "T", "*", "8", "5", "6">>
P_ST_bare == <<"S", "T">>
P_HL_padded == <<" ", "H", "L", "*", "1", "*", "*", "S", " ">>
P_GS_pipe == <<"G", "S", "|", "S", "H", "|", "S", "|", "R", "|", "1", "|", "1", "|", "6">>
P_plain == <<"L", "I", "N", "E", "4">>
P_mixed == <<"N", "1", "*", "A", "|", "B">>

\* the lines a parsed text is made of
LinePool ==
    {P_blank, P_space, L_ST, P_ST_0002, P_ST_type_only, P_ST_bare, P_HL_padded,
     L_GS, P_GS_pipe, L_ISA, L_ISA_short, P_plain, P_mixed}

\* the most lines of a parsed text
MaxLines == 3

ParseInit ==
    /\ variant = "app"
    /\ input_lines \in UNION {[1..n -> LinePool] : n \in 1..MaxLines}
    /\ config \in {c \in AppConfigs : c.detected_modules = AllFive
                                      /\ c.vendor_id = V_wmtin}
    /\ now = ShipTime
    /\ faults = {}
    /\ content = Text(input_lines)
    /\ pc = "start"
    /\ parsed_data = NotParsed
    /\ validation_pipeline = <<>>
    /\ executed = <<>>
    /\ validations = <<>>
    /\ summary = InitialSummary
    /\ gtin = <<>>
    /\ checksum_valid = FALSE

\* the file is read and parsed; no validator runs
ParseNext == Start

ParseSpec == ParseInit /\ [][ParseNext]_vars

(***************************************************************************)
(* Calls of ProductValidator._validate_gtin_checksum alone                 *)
(***************************************************************************)
G_valid == <<"0", "0", "0", "1", "2", "3", "4", "5", "6", "7", "8", "9", "0", "5">>
G_table == <<"1", "2", "3", "4", "5", "6", "7", "8", "9", "0", "1", "2", "3", "4">>
G_nines == <<"9", "8", "7", "6", "5", "4", "3", "2", "1", "0", "9", "8", "7", "6">>

GtinBases == {G_valid, G_table, G_nines}

\* the number of digits of a 14-digit argument that range over all digits:
\* its last ones, the check digit among them
FreeDigits == 3

\* 14-digit strings: a base with its last FreeDigits digits replaced
FourteenDigits ==
    {SubSeq(b, 1, 14 - FreeDigits) \o t :
         b \in GtinBases, t \in [1..FreeDigits -> Digits]}

\* 14-digit strings that differ from a base in one digit
OneDigitChanged ==
    {[b EXCEPT ![k] = d] : b \in GtinBases, k \in 1..14, d \in Digits}

\* strings that are not 14 digits: shorter, longer, or with another character
NotFourteenDigits ==
    {SubSeq(b, 1, n) : b \in GtinBases, n \in {0, 1, 12, 13}}
    \cup {b \o <<d>> : b \in GtinBases, d \in Digits}
    \cup {[b EXCEPT ![k] = c] : b \in GtinBases, k \in 1..14,
                                c \in {"A", " ", "-", "*"}}

GtinInit ==
    /\ gtin \in FourteenDigits \cup OneDigitChanged \cup NotFourteenDigits
    /\ checksum_valid = FALSE
    /\ pc = "call"
    /\ variant = "app"
    /\ input_lines = <<>>
    /\ content = <<>>
    /\ config \in {c \in AppConfigs : c.detected_modules = AllFive
                                      /\ c.vendor_id = V_wmtin}
    /\ now = ShipTime
    /\ faults = {}
    /\ parsed_data = NotParsed
    /\ validation_pipeline = <<>>
    /\ executed = <<>>
    /\ validations = <<>>
    /\ summary = InitialSummary

\* one call of _validate_gtin_checksum
CheckGtin ==
    /\ pc = "call"
    /\ checksum_valid' = ValidateGtinChecksum(gtin)
    /\ pc' = "returned"
    /\ UNCHANGED <<gtin, variant, input_lines, content, config, now, faults,
                   parsed_data, validation_pipeline, executed, validations,
                   summary>>

GtinNext == CheckGtin

GtinSpec == GtinInit /\ [][GtinNext]_vars

(***************************************************************************)
(* Properties of the orchestrator runs (Spec)                              *)
(***************************************************************************)
RECURSIVE CountFindings(_, _)
\* the findings of one kind ("errors" or "warnings") in all stored results
CountFindings(vals, kind) ==
    IF vals = <<>> THEN 0
    ELSE Len(GetOr(Head(vals).result, kind, <<>>)) + CountFindings(Tail(vals), kind)

\* the result stored under a key
ResultOf(key) ==
    validations[CHOOSE j \in DOMAIN validations : validations[j].key = key].result

Ran(key) == \E j \in DOMAIN validations : validations[j].key = key

\* some finding of the list carries the message
HasMessage(findings, msg) == \E k \in DOMAIN findings : findings[k].message = msg

\* C1: after a run, summary.is_ready is true exactly when the validators that
\* ran reported no error in total, whatever the number of warnings.
C1_ReadyIffNoErrors ==
    pc = "done" =>
        (summary.is_ready <=> CountFindings(validations, "errors") = 0)

\* C1 witness: a finished run of the five validators with no error and at
\* least five warnings, which is ready.
C1_ReadyWithFiveWarnings ==
    /\ pc = "done"
    /\ Len(validations) = 5
    /\ CountFindings(validations, "errors") = 0
    /\ CountFindings(validations, "warnings") >= 5
    /\ summary.is_ready

\* C2 as stated: after a run every enabled validator has a result, and the
\* result of each of the five validators that failed internally holds exactly
\* one error, whose segment is SYSTEM.
C2_FaultIsOneSystemError ==
    pc = "done" =>
        /\ \A k \in DOMAIN validation_pipeline : Ran(validation_pipeline[k])
        /\ \A key \in faults \cap FiveValidators :
               Ran(key) =>
                   /\ Len(GetOr(ResultOf(key), "errors", <<>>)) = 1
                   /\ ResultOf(key).errors[1].segment = "SYSTEM"

C3_Order == <<"edi", "gstin", "products", "timing", "certificates">>

C3_Rank(key) == CHOOSE k \in DOMAIN C3_Order : C3_Order[k] = key

\* the validators of the five that the configuration enables
C3_Enabled ==
    IF variant = "app"
    THEN IF config.detected_modules.vendorladon THEN Range(C3_Order) ELSE {}
    ELSE {key \in Range(C3_Order) :
              \/ key = "edi" /\ config.validate_edi
              \/ key = "gstin" /\ config.validate_gstin
              \/ key = "products" /\ config.validate_products
              \/ key = "timing" /\ config.validate_timing
              \/ key = "certificates" /\ config.validate_certificates}

\* the calls made so far to the five validators, in the order made
C3_Calls == SelectSeq(executed, LAMBDA e : e.key \in Range(C3_Order))

\* C3: the enabled validators run in the order edi, gstin, products, timing,
\* certificates: each at most once and, when the run is over, exactly once;
\* none before an enabled one that precedes it; each with the same parsed
\* document and configuration; and the keys of validations are in the order
\* of execution.
C3_FixedOrder ==
    /\ \A i, j \in DOMAIN C3_Calls :
           i < j => C3_Rank(C3_Calls[i].key) < C3_Rank(C3_Calls[j].key)
    /\ \A i \in DOMAIN C3_Calls :
           /\ C3_Calls[i].key \in C3_Enabled
           /\ \A key \in C3_Enabled :
                  C3_Rank(key) < C3_Rank(C3_Calls[i].key)
                      => \E j \in 1..(i - 1) : C3_Calls[j].key = key
    /\ pc = "done" => {C3_Calls[i].key : i \in DOMAIN C3_Calls} = C3_Enabled
    /\ \A i \in DOMAIN executed :
           /\ executed[i].parsed_data = parsed_data
           /\ executed[i].config = config
    /\ [i \in DOMAIN validations |-> validations[i].key]
           = [i \in DOMAIN executed |-> executed[i].key]

\* C3 witness: a finished run in which edi, products and certificates are
\* enabled, gstin and timing are not, and the three ran in that order.
C3_ThreeOfFiveRan ==
    /\ pc = "done"
    /\ C3_Enabled = {"edi", "products", "certificates"}
    /\ [i \in DOMAIN executed |-> executed[i].key]
           = <<"edi", "products", "certificates">>

\* C4 as stated: every result of the five validators has success = true
\* exactly when its errors list is empty.
C4_SuccessIffNoErrors ==
    \A j \in DOMAIN validations :
        validations[j].key \in FiveValidators =>
            (GetOr(validations[j].result, "success", FALSE)
                 <=> GetOr(validations[j].result, "errors", <<>>) = <<>>)

\* the document of the end-to-end scenario: the eight required tags, a LIN
\* segment with the 14-digit GTIN 00012345678905 (valid check digit), a GSTIN
\* of state 27, the ship date, a certificate that expires 200 days later
C5_Document ==
    DocOf(EnvFull, <<L_REF_27>>, <<L_LIN_gtin_valid>>, <<L_DTM_ship>>,
          <<L_CERT_far>>)

\* C5 as stated: the full pipeline on the end-to-end document, 10 hours
\* before the ship date and with state_code 27, ends with total_errors = 0
\* and is_ready = true.
C5_EndToEndReady ==
    (/\ pc = "done"
     /\ input_lines = C5_Document
     /\ now = ShipTime - 10 * 60
     /\ config.state_code = <<"2", "7">>
     /\ faults = {}
     /\ validation_pipeline = C3_Order)
        => summary.total_errors = 0 /\ summary.is_ready

\* C6: a run on the empty string ends with a report that holds a result for
\* every validator of the pipeline; the EDI result holds the "no content"
\* error, and the results of GSTIN, product, timing and certificate
\* validation each hold the validator's "nothing found" warning.
C6_EmptyInputReport ==
    (pc = "done" /\ content = <<>> /\ faults = {}) =>
        /\ \A k \in DOMAIN validation_pipeline : Ran(validation_pipeline[k])
        /\ Ran("edi") =>
               HasMessage(ResultOf("edi").errors,
                          "No file content found for validation")
        /\ Ran("gstin") =>
               HasMessage(ResultOf("gstin").warnings, "No GSTIN found in file")
        /\ Ran("products") =>
               HasMessage(ResultOf("products").warnings,
                          "No product codes found in file")
        /\ Ran("timing") =>
               HasMessage(ResultOf("timing").warnings, "No dates found in ASN")
        /\ Ran("certificates") =>
               HasMessage(ResultOf("certificates").warnings,
                          "No AS2 certificates found")

\* C6 witness: a finished run of all five validators on the empty string.
C6_EmptyInputFullRun ==
    /\ pc = "done"
    /\ content = <<>>
    /\ faults = {}
    /\ [i \in DOMAIN executed |-> executed[i].key] = C3_Order

(***************************************************************************)
(* Properties of the parser (ParseSpec)                                    *)
(***************************************************************************)
\* a line that is blank after trimming: nothing but whitespace
AllWhitespace(l) == \A k \in DOMAIN l : l[k] \in Whitespace

\* r is l without its leading and trailing whitespace
TrimmedTo(l, r) ==
    /\ r # <<>>
    /\ r[1] \notin Whitespace
    /\ r[Len(r)] \notin Whitespace
    /\ \E a \in 0..(Len(l) - Len(r)) :
           /\ SubSeq(l, a + 1, a + Len(r)) = r
           /\ AllWhitespace(SubSeq(l, 1, a))
           /\ AllWhitespace(SubSeq(l, a + Len(r) + 1, Len(l)))

\* the 1-based indexes of the non-blank input lines, increasing
NonBlankIndexes == SortedSeq({i \in DOMAIN input_lines : ~AllWhitespace(input_lines[i])})

\* C7: the flat segments list has one entry per input line that is non-blank
\* after trimming, in input order, and each entry's line_number is the
\* 1-based index of its line among all input lines.
C7_SegmentPerNonBlankLine ==
    pc # "start" =>
        /\ Len(parsed_data.segments) = Len(NonBlankIndexes)
        /\ \A k \in DOMAIN parsed_data.segments :
               /\ parsed_data.segments[k].line_number = NonBlankIndexes[k]
               /\ TrimmedTo(input_lines[NonBlankIndexes[k]],
                            parsed_data.segments[k].raw_content)

\* C7 witness: a parsed text in which a blank line (of whitespace only)
\* precedes a non-blank line.
C7_BlankLineBeforeSegment ==
    /\ pc # "start"
    /\ \E i, j \in DOMAIN input_lines :
           /\ i < j
           /\ input_lines[i] # <<>>
           /\ AllWhitespace(input_lines[i])
           /\ ~AllWhitespace(input_lines[j])
    /\ parsed_data.segments # <<>>

\* C8 as stated: the transaction set opened for an ST segment has the
\* segment's element 1 as type and its element 2 as control number, and
\* "Unknown" and the empty string where the element is absent.
C8_TypeAndControlNumber ==
    pc # "start" =>
        \A k \in DOMAIN parsed_data.transaction_sets :
            LET tset == parsed_data.transaction_sets[k]
                st == tset.segments[1]
            IN  /\ tset.type = IF Len(st.elements) >= 1 THEN st.elements[1]
                               ELSE UnknownType
                /\ tset.control_number = IF Len(st.elements) >= 2
                                         THEN st.elements[2] ELSE <<>>

\* the indexes of the ST segments in the flat list, increasing
StIndexes ==
    SortedSeq({i \in DOMAIN parsed_data.segments :
                   parsed_data.segments[i].tag = <<"S", "T">>})

RECURSIVE ConcatSegments(_)
ConcatSegments(tsets) ==
    IF tsets = <<>> THEN <<>>
    ELSE Head(tsets).segments \o ConcatSegments(Tail(tsets))

\* C9: there is one transaction set per ST segment, in order; each set is
\* the run of flat segments from its ST segment up to the next ST segment or
\* the end, so it begins with its ST segment and holds no other; the sets
\* concatenated are the flat segments from the first ST segment on, and
\* the segments before it are in no set.
C9_SetsPartitionSegments ==
    pc # "start" =>
        LET segs == parsed_data.segments
            tsets == parsed_data.transaction_sets
            n == Len(StIndexes)
            stop(k) == IF k = n THEN Len(segs) ELSE StIndexes[k + 1] - 1
        IN  /\ Len(tsets) = n
            /\ \A k \in 1..n :
                   /\ tsets[k].segments = SubSeq(segs, StIndexes[k], stop(k))
                   /\ tsets[k].segments[1].tag = <<"S", "T">>
                   /\ \A m \in 2..Len(tsets[k].segments) :
                          tsets[k].segments[m].tag # <<"S", "T">>
            /\ ConcatSegments(tsets)
                   = IF n = 0 THEN <<>> ELSE SubSeq(segs, StIndexes[1], Len(segs))

\* C9 witness: a parsed text with two transaction sets, the first of which
\* holds a segment behind its ST segment.
C9_TwoSetsParsed ==
    /\ pc # "start"
    /\ Len(parsed_data.transaction_sets) = 2
    /\ Len(parsed_data.transaction_sets[1].segments) = 2

\* the last segment of a tag that has more than index elements, if any
LongEnough(tag, index) ==
    {i \in DOMAIN parsed_data.segments :
         /\ parsed_data.segments[i].tag = tag
         /\ Len(parsed_data.segments[i].elements) > index}

\* control_numbers[key] is element index (from 0) of the last long-enough
\* segment of the tag, and there is no entry when there is no such segment
ControlNumberIs(key, tag, index) ==
    IF LongEnough(tag, index) = {}
    THEN key \notin DOMAIN parsed_data.control_numbers
    ELSE /\ key \in DOMAIN parsed_data.control_numbers
         /\ parsed_data.control_numbers[key]
                = parsed_data.segments[
                      CHOOSE i \in LongEnough(tag, index) :
                          \A j \in LongEnough(tag, index) : j <= i
                  ].elements[index + 1]

\* C10: control_numbers holds for ISA, GS and ST the element at index 12, 5
\* and 1 of the last ISA, GS, ST segment that has enough elements; shorter
\* segments change nothing, and a tag without a long-enough segment has no
\* entry.
C10_ControlNumbersLastWins ==
    pc # "start" =>
        /\ ControlNumberIs("ISA", <<"I", "S", "A">>, 12)
        /\ ControlNumberIs("GS", <<"G", "S">>, 5)
        /\ ControlNumberIs("ST", <<"S", "T">>, 1)
        /\ DOMAIN parsed_data.control_numbers \subseteq {"ISA", "GS", "ST"}

\* C10 witness: a parsed text with two long-enough ST segments of different
\* control numbers and a too short ST segment behind them.
C10_ShortAfterTwoLong ==
    /\ pc # "start"
    /\ \E i, j, k \in DOMAIN parsed_data.segments :
           /\ i < j /\ j < k
           /\ {i, j} \subseteq LongEnough(<<"S", "T">>, 1)
           /\ parsed_data.segments[i].elements[2] # parsed_data.segments[j].elements[2]
           /\ parsed_data.segments[k].tag = <<"S", "T">>
           /\ k \notin LongEnough(<<"S", "T">>, 1)

\* the tag and the elements of a segment are the fields of its trimmed
\* line under the delimiter the line selects, and joined give the line back
C11_Rejoined(seg) ==
    LET raw == seg.raw_content
        parts == <<seg.tag>> \o seg.elements
    IN  IF Contains(raw, "*")
        THEN /\ Join(parts, <<"*">>) = raw
             /\ \A k \in DOMAIN parts : ~Contains(parts[k], "*")
        ELSE IF Contains(raw, "|")
        THEN /\ Join(parts, <<"|">>) = raw
             /\ \A k \in DOMAIN parts : ~Contains(parts[k], "|")
        ELSE /\ Concat(parts) = raw
             /\ seg.tag = SubSeq(raw, 1, IF Len(raw) < 3 THEN Len(raw) ELSE 3)
             /\ Len(seg.elements) = IF Len(raw) > 3 THEN 1 ELSE 0

\* C11: every non-blank line yields a segment whose tag and elements are
\* the fields of the trimmed line split on "*" if the line holds a "*",
\* else on "|" if it holds a "|", else its first 3 characters and the
\* remainder as a single element; tag and elements joined in order with the
\* chosen delimiter (none in the fixed-width case) give the trimmed line.
C11_TokenizingLosesNothing ==
    pc # "start" =>
        /\ Len(parsed_data.segments) = Len(NonBlankIndexes)
        /\ \A k \in DOMAIN parsed_data.segments :
               /\ TrimmedTo(input_lines[NonBlankIndexes[k]],
                            parsed_data.segments[k].raw_content)
               /\ C11_Rejoined(parsed_data.segments[k])

\* C11 witness: a parsed text of three segments: a line holding both
\* delimiters or an empty field, a line holding only "|", and a line
\* without delimiter that is longer than its 3-character tag.
C11_ThreeTiersParsed ==
    /\ pc # "start"
    /\ Len(parsed_data.segments) = 3
    /\ \E i, j, k \in DOMAIN parsed_data.segments :
           /\ Contains(parsed_data.segments[i].raw_content, "*")
           /\ \/ Contains(parsed_data.segments[i].raw_content, "|")
              \/ <<>> \in Range(parsed_data.segments[i].elements)
           /\ ~Contains(parsed_data.segments[j].raw_content, "*")
           /\ Contains(parsed_data.segments[j].raw_content, "|")
           /\ Len(parsed_data.segments[j].elements) > 1
           /\ ~Contains(parsed_data.segments[k].raw_content, "*")
           /\ ~Contains(parsed_data.segments[k].raw_content, "|")
           /\ Len(parsed_data.segments[k].elements) = 1

\* C12: no validator call and no orchestrator step after parsing changes the
\* parsed document (content, segments, transaction_sets, control_numbers)
\* or the configuration: each step leaves both as they were when parsing
\* finished.
C12_ValidatorsChangeNothing ==
    [][pc # "start" => /\ parsed_data' = parsed_data
                       /\ config' = config]_vars

\* C12 witness: the whole pipeline of five validators has run on a document
\* with segments, and every validator was handed the document as parsed and
\* the configuration as given.
C12_FivePassesOverDocument ==
    /\ pc = "done"
    /\ Len(executed) = 5
    /\ parsed_data.segments # <<>>
    /\ parsed_data = parse_edi_file(content)
    /\ \A k \in DOMAIN executed : /\ executed[k].parsed_data = parsed_data
                                   /\ executed[k].config = config

\* C13: when the document has no content the EDI structure validator
\* returns exactly one error, with segment FILE, no warnings and success
\* false, and none of its other checks (required segments, ISA fields,
\* vendor ID, terminator) leaves a finding.
C13_NoContentOneFileError ==
    (pc = "done" /\ Ran("edi") /\ "edi" \notin faults /\ content = <<>>) =>
        LET r == ResultOf("edi")
        IN  /\ Len(r.errors) = 1
            /\ r.errors[1].segment = "FILE"
            /\ r.errors[1].message = "No file content found for validation"
            /\ r.warnings = <<>>
            /\ r.success = FALSE

\* C13 witness: the EDI structure validator has run on an empty upload
\* under a vendor ID that its vendor check would warn about.
C13_EmptyUploadOtherVendor ==
    /\ pc = "done"
    /\ Ran("edi")
    /\ "edi" \notin faults
    /\ content = <<>>
    /\ config.vendor_id = V_other
    /\ Len(ResultOf("edi").errors) = 1

\* the eight tags an ASN must hold
C14_Tags ==
    { <<"I", "S", "A">>, <<"G", "S">>, <<"S", "T">>, <<"B", "S", "N">>,
      <<"H", "L">>, <<"S", "E">>, <<"G", "E">>, <<"I", "E", "A">> }

\* the tags without an occurrence of "<TAG>*" anywhere in the raw text
C14_Absent ==
    {t \in C14_Tags :
         \A i \in 1..Len(content) : ~LitAt(content, i, t \o <<"*">>)}

\* C14: for non-empty content the EDI structure validator reports at most
\* one missing-segments error; it is present exactly when one of the eight
\* required tags has no "<TAG>*" in the raw text, it lists exactly those
\* tags, and the details line reports 8 minus the number missing out of 8.
C14_OneMissingSegmentsError ==
    (pc = "done" /\ Ran("edi") /\ "edi" \notin faults /\ content # <<>>) =>
        LET r == ResultOf("edi")
            found == SelectSeq(r.errors, LAMBDA e : e.segment = "STRUCTURE")
        IN  /\ Len(found) <= 1
            /\ (Len(found) = 1) <=> (C14_Absent # {})
            /\ \A k \in DOMAIN found :
                   /\ Range(found[k].args) = C14_Absent
                   /\ Len(found[k].args) = Cardinality(C14_Absent)
            /\ r.details = <<8 - Cardinality(C14_Absent), 8>>

\* C14 witness: the validator has run on a text that holds five of the
\* eight required tags and reported the three others in one error.
C14_ThreeOfEightMissing ==
    /\ pc = "done"
    /\ Ran("edi")
    /\ "edi" \notin faults
    /\ content # <<>>
    /\ Cardinality(C14_Absent) = 3
    /\ ResultOf("edi").details = <<5, 8>>
    /\ \E k \in DOMAIN ResultOf("edi").errors :
           /\ ResultOf("edi").errors[k].segment = "STRUCTURE"
           /\ Len(ResultOf("edi").errors[k].args) = 3

\* the findings of a list that concern the configuration
C15_ConfigFindings(findings) == SelectSeq(findings, LAMBDA f : f.segment = "CONFIG")

\* C15 as stated: for non-empty content the EDI structure validator adds
\* exactly one warning with segment CONFIG whenever the configured vendor ID
\* does not start with WMTIN-, and none when it does; it never adds an
\* error for the vendor ID.
C15_VendorPrefixWarning ==
    (pc = "done" /\ Ran("edi") /\ "edi" \notin faults /\ content # <<>>) =>
        LET r == ResultOf("edi")
        IN  /\ Len(C15_ConfigFindings(r.warnings))
                   = IF LitAt(config.vendor_id, 1, <<"W", "M", "T", "I", "N", "-">>)
                     THEN 0 ELSE 1
            /\ C15_ConfigFindings(r.errors) = <<>>

\* the text holds a single GSTIN candidate; it is well formed and its first
\* two characters are a known state code other than the configured one
C16_SingleMismatchedGstin ==
    /\ Cardinality(ExtractGstins(content)) = 1
    /\ \A g \in ExtractGstins(content) :
           /\ GstinFormatOk(g)
           /\ SubSeq(g, 1, 2) \in state_codes
           /\ SubSeq(g, 1, 2) # config.state_code

\* C16: on an input with a single well-formed GSTIN whose state code is
\* known and differs from the configured state_code, the GSTIN validator
\* returns exactly one error, and the details of that error hold both the
\* state code found and the state code expected.
C16_OneMismatchError ==
    (pc = "done" /\ Ran("gstin") /\ "gstin" \notin faults
        /\ C16_SingleMismatchedGstin) =>
        LET r == ResultOf("gstin")
        IN  /\ Len(r.errors) = 1
            /\ r.errors[1].message = "GSTIN state code mismatch"
            /\ \A g \in ExtractGstins(content) :
                   r.errors[1].args = <<SubSeq(g, 1, 2), config.state_code>>

\* C16 witness: the GSTIN validator has run on a text whose only GSTIN
\* begins with 07 under the configured state code 27.
C16_Found07Expected27 ==
    /\ pc = "done"
    /\ Ran("gstin")
    /\ "gstin" \notin faults
    /\ C16_SingleMismatchedGstin
    /\ config.state_code = <<"2", "7">>
    /\ ResultOf("gstin").errors # <<>>
    /\ ResultOf("gstin").errors[1].args = << <<"0", "7">>, <<"2", "7">> >>

\* the digit at position k (from 0) of the argument
C17_d(k) == DigitVal(gtin[k + 1])

\* the check digit of the first thirteen digits, weights 3, 1, 3, 1, ...
\* from the leftmost digit
C17_CheckDigit ==
    (10 - ((3 * C17_d(0) + 1 * C17_d(1) + 3 * C17_d(2) + 1 * C17_d(3)
            + 3 * C17_d(4) + 1 * C17_d(5) + 3 * C17_d(6) + 1 * C17_d(7)
            + 3 * C17_d(8) + 1 * C17_d(9) + 3 * C17_d(10) + 1 * C17_d(11)
            + 3 * C17_d(12)) % 10)) % 10

C17_IsFourteenDigits == Len(gtin) = 14 /\ \A k \in 1..14 : gtin[k] \in Digits

\* C17: _validate_gtin_checksum returns true for a 14-digit string exactly
\* when its last digit is (10 - (weighted sum of the first thirteen digits
\* mod 10)) mod 10 with weights 3, 1, 3, ..., 3 from the leftmost digit, and
\* false for every string that is not exactly 14 digits.
C17_ChecksumFormula ==
    pc = "returned" =>
        checksum_valid = (C17_IsFourteenDigits /\ C17_d(13) = C17_CheckDigit)

\* C17 witness: the call returned true for a 14-digit string whose check
\* digit is not 0 and whose thirteenth digit is not that of a base.
C17_AcceptedNonZeroCheckDigit ==
    /\ pc = "returned"
    /\ checksum_valid
    /\ C17_IsFourteenDigits
    /\ gtin[14] # "0"
    /\ gtin \notin GtinBases

\* the findings of the timing validator's ship-date window check
C18_WindowErrors ==
    SelectSeq(ResultOf("timing").errors,
              LAMBDA e : e.message \in {"ASN submitted too early",
                                         "ASN submitted after ship date"})

C18_EarlyWarnings ==
    SelectSeq(ResultOf("timing").warnings,
              LAMBDA w : w.message = "ASN submitted {h} hours before shipping")

\* the timing validator has run, without fault, on a text with a ship date
C18_ShipDateChecked ==
    /\ pc = "done"
    /\ Ran("timing")
    /\ "timing" \notin faults
    /\ "ship_date" \in DOMAIN ExtractDates(content)

\* C18: with h the time from now until the ship date, the timing validator
\* reports a ship-window error exactly when h > 24 hours or h < 0; a ship
\* date exactly 25 hours ahead yields the error, and a ship date exactly 10
\* hours ahead yields neither the error nor the early-submission warning.
C18_WindowErrorIffOutside ==
    C18_ShipDateChecked =>
        LET h == ExtractDates(content)["ship_date"] - now   \* minutes
        IN  /\ Len(C18_WindowErrors) = IF h > 24 * 60 \/ h < 0 THEN 1 ELSE 0
            /\ h = 25 * 60 => Len(C18_WindowErrors) = 1
            /\ h = 10 * 60 => /\ C18_WindowErrors = <<>>
                              /\ C18_EarlyWarnings = <<>>

\* C18 witness: the timing validator has run 25 hours before the ship date
\* of the text and reported the submission as too early.
C18_TwentyFiveHoursAhead ==
    /\ C18_ShipDateChecked
    /\ ExtractDates(content)["ship_date"] - now = 25 * 60
    /\ Len(C18_WindowErrors) = 1
    /\ C18_WindowErrors[1].message = "ASN submitted too early"

\* the findings of a list that name a certificate and carry a message
C19_Named(findings, name, msg) ==
    SelectSeq(findings, LAMBDA f : f.args = <<name>> /\ f.message = msg)

\* the expiry findings of one certificate are those of a case: "expired",
\* "soon", "warning" or "none"
C19_ExpiryCase(name, case) ==
    LET r == ResultOf("certificates")
    IN  /\ Len(C19_Named(r.errors, name, "Certificate expired: {name}"))
               = IF case = "expired" THEN 1 ELSE 0
        /\ Len(C19_Named(r.errors, name, "Certificate expires soon: {name}"))
               = IF case = "soon" THEN 1 ELSE 0
        /\ Len(C19_Named(r.warnings, name, "Certificate expires in {n} days: {name}"))
               = IF case = "warning" THEN 1 ELSE 0

\* C19 as stated: every certificate with an expiry date gets exactly one of:
\* an error when the expiry is in the past, an error when it is within 7
\* days, a warning when it is within 30 days, and no expiry finding when it
\* is more than 30 days away.
C19_ExpiryTiers ==
    (pc = "done" /\ Ran("certificates") /\ "certificates" \notin faults) =>
        \A k \in DOMAIN ExtractCertificates(content) :
            LET cert == ExtractCertificates(content)[k]
                away == cert.expiry_date - now   \* minutes
            IN  C19_ExpiryCase(cert.name,
                    IF away < 0 THEN "expired"
                    ELSE IF away <= 7 * MinutesPerDay THEN "soon"
                    ELSE IF away <= 30 * MinutesPerDay THEN "warning"
                    ELSE "none")

\* C20 as stated: when the text holds no parseable CERT*<name>*<YYYYMMDD>
\* the certificate validator adds one "no certificates found" warning and
\* evaluates the three synthetic certificates, and the case is not blocking:
\* the certificate result has no error.
C20_NoCertificatesNotBlocking ==
    (pc = "done" /\ Ran("certificates") /\ "certificates" \notin faults
        /\ ExtractCertificates(content) = <<>>) =>
        LET r == ResultOf("certificates")
        IN  /\ Len(SelectSeq(r.warnings,
                             LAMBDA w : w.message = "No AS2 certificates found")) = 1
            /\ \A k \in DOMAIN r.warnings :
                   r.warnings[k].args \in
                       {<<>>, <<"vendor_signing_cert">>, <<"vendor_encryption_cert">>,
                        <<"walmart_public_cert">>}
            /\ r.errors = <<>>

\* an entry is a finding with segment, message, details and a non-empty
\* suggestion
C21_IsFinding(f) ==
    /\ {"segment", "message", "details", "suggestion"} \subseteq DOMAIN f
    /\ f.suggestion # ""

\* C21 as stated: every entry of the errors list and of the warnings list of
\* every validator result placed in the report is a finding that carries
\* segment, message, details and a non-empty suggestion.
C21_FindingsCarrySuggestion ==
    \A j \in DOMAIN validations :
        /\ \A k \in DOMAIN GetOr(validations[j].result, "errors", <<>>) :
               C21_IsFinding(validations[j].result.errors[k])
        /\ \A k \in DOMAIN GetOr(validations[j].result, "warnings", <<>>) :
               C21_IsFinding(validations[j].result.warnings[k])

\* C22: ColdChainValidator.validate returns a result whatever the sensor
\* fetch or the risk scorer does, an internal fault included; its
\* overall_status is APPROVED, BLOCKED or ERROR (never PENDING), it is
\* APPROVED exactly when blocking_issues is empty, and success is true
\* exactly when it is APPROVED.
C22_ColdChainStatus ==
    \A k \in DOMAIN executed : executed[k].key = "coldchain" =>
        /\ Ran("coldchain")
        /\ ResultOf("coldchain").overall_status \in {"APPROVED", "BLOCKED", "ERROR"}
        /\ (ResultOf("coldchain").overall_status = "APPROVED")
               <=> (ResultOf("coldchain").blocking_issues = <<>>)
        /\ ResultOf("coldchain").success
               <=> (ResultOf("coldchain").overall_status = "APPROVED")

\* C22 witness: an internal fault was raised inside the cold-chain validator,
\* its result is in the report with status ERROR, and the run has ended.
C22_FaultBecomesError ==
    /\ pc = "done"
    /\ "coldchain" \in faults
    /\ Ran("coldchain")
    /\ ResultOf("coldchain").overall_status = "ERROR"
    /\ ResultOf("coldchain").success = FALSE

\* characters 3-12 of a candidate are five letters, four digits and a letter
C23_PanShape(g) ==
    /\ Len(g) >= 12
    /\ \A k \in 3..7 : g[k] \in Upper
    /\ \A k \in 8..11 : g[k] \in Digits
    /\ g[12] \in Upper

\* the errors of the GSTIN result with a message and a first argument
C23_ErrorsOf(msg, arg) ==
    SelectSeq(ResultOf("gstin").errors,
              LAMBDA e : e.message = msg /\ e.args # <<>> /\ e.args[1] = arg)

\* C23 as stated: the per-candidate checks of the GSTIN validator are
\* independent, so that one candidate can contribute two or more errors:
\* every extracted candidate whose state code is known and differs from the
\* configured one contributes a state-code mismatch error, and every
\* extracted candidate whose characters 3-12 are not a PAN contributes an
\* embedded-PAN error, whatever its other checks report.
C23_ChecksIndependent ==
    (pc = "done" /\ Ran("gstin") /\ "gstin" \notin faults) =>
        \A g \in ExtractGstins(content) :
            /\ (SubSeq(g, 1, 2) \in state_codes /\ SubSeq(g, 1, 2) # config.state_code)
                   => C23_ErrorsOf("GSTIN state code mismatch", SubSeq(g, 1, 2)) # <<>>
            /\ ~C23_PanShape(g)
                   => C23_ErrorsOf("Invalid PAN format within GSTIN: {pan}",
                                   SubSeq(g, 3, 12)) # <<>>

C24_VeryCloseWarnings ==
    SelectSeq(ResultOf("timing").warnings,
              LAMBDA w : w.message = "ASN submitted very close to ship time")

\* C24 as stated: when the ship date lies ahead of now by a positive but
\* very small time (here: less than one hour), the timing validator adds
\* one "submitted very close to ship time" warning, and no error, for the
\* ship date.
C24_VeryCloseWarning ==
    C18_ShipDateChecked =>
        LET h == ExtractDates(content)["ship_date"] - now   \* minutes
        IN  (0 < h /\ h < 60) => /\ Len(C24_VeryCloseWarnings) = 1
                                 /\ C18_WindowErrors = <<>>

\* C25 as stated: whenever the same product code occurs more than once in
\* the document (here: in two LIN segments), the product validator adds a
\* "duplicate product codes" warning.
C25_DuplicateWarning ==
    (pc = "done" /\ Ran("products") /\ "products" \notin faults) =>
        LET lin == FindAll(LinTries(content))
        IN  (\E i, j \in DOMAIN lin : i < j /\ lin[i][1] = lin[j][1])
                => HasMessage(ResultOf("products").warnings,
                              "Duplicate product codes detected")

\* some finding of the list carries the message and the argument
C26_Has(findings, msg, arg) ==
    \E k \in DOMAIN findings : /\ findings[k].message = msg
                                /\ findings[k].args = <<arg>>

\* the quantity findings of the product result cover every SN1 segment
C26_QuantitiesChecked ==
    LET r == ResultOf("products")
        sn1 == FindAll(Sn1Tries(content))
    IN  \A k \in DOMAIN sn1 :
            /\ ToInt(sn1[k][1]) <= 0
                   => C26_Has(r.errors, "Invalid quantity: {qty}", ToInt(sn1[k][1]))
            /\ ToInt(sn1[k][1]) > 10000
                   => C26_Has(r.warnings, "Large quantity detected: {qty}",
                              ToInt(sn1[k][1]))
            /\ sn1[k][2] \notin {<<"E", "A">>, <<"C", "S">>, <<"B", "X">>,
                                  <<"P", "K">>, <<"L", "B">>, <<"K", "G">>,
                                  <<"P", "C">>, <<"D", "Z">>}
                   => C26_Has(r.warnings, "Uncommon unit of measure: {uom}", sn1[k][2])

\* C26 as stated: for every SN1*<line>*<qty>*<uom> segment of the document,
\* whether or not any product code was found, the product validator adds an
\* error when qty <= 0, a warning when qty > 10000, and a warning when uom
\* is not one of EA, CS, BX, PK, LB, KG, PC, DZ.
C26_QuantityChecksAlways ==
    (pc = "done" /\ Ran("products") /\ "products" \notin faults)
        => C26_QuantitiesChecked

\* the findings of a list about one product code
C27_About(findings, code) ==
    SelectSeq(findings, LAMBDA f : f.segment = "LIN" /\ f.args = <<code>>)

\* a code of exactly 12 digits got the one UPC-12 warning and no error
C27_TreatedAsUpc12(code) ==
    LET r == ResultOf("products")
    IN  /\ Len(C27_About(r.warnings, code)) = 1
        /\ C27_About(r.warnings, code)[1].message = "UPC-12 format detected: {code}"
        /\ C27_About(r.errors, code) = <<>>

\* C27 as stated: every extracted product code of exactly 12 digits is
\* treated as UPC-12, whatever its leading digits: it yields exactly one
\* warning recommending conversion to GTIN-14 and never an error.
C27_TwelveDigitsIsUpc ==
    (pc = "done" /\ Ran("products") /\ "products" \notin faults) =>
        \A code \in ExtractProductCodes(content) :
            (Len(code) = 12 /\ \A k \in 1..12 : code[k] \in Digits)
                => C27_TreatedAsUpc12(code)

\* the three counters of the summary agree with the stored results
C28_CountersAgree ==
    /\ summary.total_validations = Len(validations)
    /\ summary.total_errors = CountFindings(validations, "errors")
    /\ summary.total_warnings = CountFindings(validations, "warnings")

\* C28: at every step of the orchestrator loop and in the final report,
\* total_validations is the number of entries of validations, total_errors
\* the sum of the lengths of their errors lists and total_warnings the sum
\* of the lengths of their warnings lists; no counter ever decreases.
C28_CountersTrackResults ==
    /\ []C28_CountersAgree
    /\ [][/\ summary'.total_validations >= summary.total_validations
           /\ summary'.total_errors >= summary.total_errors
           /\ summary'.total_warnings >= summary.total_warnings]_vars

\* C28 witness: a finished run of five validators in which at least two
\* results hold errors and at least two hold warnings.
C28_SeveralResultsCounted ==
    /\ pc = "done"
    /\ Len(validations) = 5
    /\ C28_CountersAgree
    /\ \E i, j \in DOMAIN validations :
           /\ i # j
           /\ validations[i].result.errors # <<>>
           /\ validations[j].result.errors # <<>>
    /\ \E i, j \in DOMAIN validations :
           /\ i # j
           /\ validations[i].result.warnings # <<>>
           /\ validations[j].result.warnings # <<>>

\* the errors of the product result about one product code
C29_ErrorsAbout(code) ==
    SelectSeq(ResultOf("products").errors,
              LAMBDA e : e.segment = "LIN" /\ e.args = <<code>>)

\* C29: every extracted product code of exactly 14 digits contributes
\* exactly one error to the product result: a checksum error, or else (its
\* check digit being right) a not-in-product-table error, no key of the
\* built-in table having a valid check digit; so the product result of a
\* document with such a code is never without errors.
C29_FourteenDigitsOneError ==
    (pc = "done" /\ Ran("products") /\ "products" \notin faults) =>
        \A code \in ExtractProductCodes(content) :
            (Len(code) = 14 /\ \A k \in 1..14 : code[k] \in Digits) =>
                /\ Len(C29_ErrorsAbout(code)) = 1
                /\ C29_ErrorsAbout(code)[1].message
                       = IF ValidateGtinChecksum(code)
                         THEN "Product code not found in database: {code}"
                         ELSE "GTIN checksum validation failed: {code}"
                /\ "success" \notin DOMAIN ResultOf("products")

\* C29 witness: the product validator has run on a text whose 14-digit code
\* has a right check digit, and reported it as not in the product table.
C29_ValidGtinNotInTable ==
    /\ pc = "done"
    /\ Ran("products")
    /\ "products" \notin faults
    /\ \E code \in ExtractProductCodes(content) :
           /\ Len(code) = 14
           /\ ValidateGtinChecksum(code)
           /\ Len(C29_ErrorsAbout(code)) = 1
           /\ C29_ErrorsAbout(code)[1].message
                  = "Product code not found in database: {code}"

\* the stored results of the validators other than the cold-chain validator
C30_OtherResults == SelectSeq(validations, LAMBDA v : v.key # "coldchain")

\* C30: when the cold-chain validator runs in the pipeline its result has
\* no errors list, so its blocking issues are never counted: total_errors
\* is the number of errors of the other results, and is_ready depends on
\* those alone, so that is_ready can be true with an overall_status of
\* BLOCKED or ERROR.
C30_BlockingIssuesNotCounted ==
    (pc = "done" /\ Ran("coldchain")) =>
        /\ "errors" \notin DOMAIN ResultOf("coldchain")
        /\ summary.total_errors = CountFindings(C30_OtherResults, "errors")
        /\ summary.is_ready = (CountFindings(C30_OtherResults, "errors") = 0)

\* C30 witness: a run has ended with is_ready true although the cold-chain
\* result in its report is BLOCKED or ERROR with a blocking issue.
C30_ReadyWhileBlocked ==
    /\ pc = "done"
    /\ Ran("coldchain")
    /\ summary.is_ready = TRUE
    /\ ResultOf("coldchain").overall_status \in {"BLOCKED", "ERROR"}
    /\ ResultOf("coldchain").blocking_issues # <<>>

====
